---------------------------- MODULE Spec2Model ----------------------------
(***************************************************************************)
(* csv-map-layer-visualizer: derivation of point and region features from  *)
(* CSV rows, and the timeline visibility filter.                            *)
(*                                                                         *)
(* Representation.                                                         *)
(*   - A cell (a JS string) is a sequence of one-character strings.        *)
(*   - A Row is a function from header names to cells; reading a key the   *)
(*     row does not have gives undefined, which every reader in the code   *)
(*     turns into "" (String(v ?? "")) or into null/NaN exactly as it does *)
(*     for "": Get returns the empty cell for it.                          *)
(*   - A field role (latField, yearField, ...) is a header name, or "" for *)
(*     null (the code only tests roles for truthiness).                    *)
(*   - A nullable integer is <<>> (null) or <<n>>.                         *)
(*   - A JS number produced by parseFloat is an exact decimal              *)
(*     [nan, mant, dec] standing for mant / 10^dec, kept normalised so     *)
(*     that record equality is numeric equality (===).                     *)
(***************************************************************************)
EXTENDS Integers, Sequences, FiniteSets, TLC

VARIABLES
    rows,             \* derive*FromCsv argument: the selected file's rows
    latField,         \* derive*FromCsv argument
    lonField,         \* derive*FromCsv argument
    featureTypeField, \* derive*FromCsv argument
    timeline,         \* derive*FromCsv argument: the timeline state
    timelineFields,   \* derive*FromCsv argument: yearField/dateField/dayOfYearField
    rangeFields,      \* derive*FromCsv argument: yearFrom/yearTo/dateFrom/dateTo fields
    pointsOut,        \* last result of derivePointsFromCsv
    regionsOut,       \* last result of deriveRegionsFromCsv
    groupsOut,        \* deriveRegionsFromCsv's local `groups` after its first loop
    visArgs,          \* arguments of a direct call of the visibility functions
    visOut,           \* results of that call: [point, region]
    csvText,          \* parseCsvFile argument: the file's text, line by line
    papaErrors,       \* number of entries of result.errors Papa.parse reports for it
    parseOut,         \* last result of parseCsvFile
    headers,          \* autoDetect* argument: the header names of a file
    detectOut,        \* last result of autoDetectLatLon and autoDetectTimelineFields
    hook,             \* useCsvFiles: its state, its imports in flight, its effect
    slider            \* DualRangeSlider: its props, its drag and what it reported

vars == <<rows, latField, lonField, featureTypeField, timeline, timelineFields,
          rangeFields, pointsOut, regionsOut, groupsOut, visArgs, visOut,
          csvText, papaErrors, parseOut, headers, detectOut, hook, slider>>

deriveVars == <<rows, latField, lonField, featureTypeField, timeline, timelineFields,
                rangeFields, pointsOut, regionsOut, groupsOut, visArgs, visOut>>
csvVars == <<csvText, papaErrors, parseOut>>
detectVars == <<headers, detectOut>>
uiVars == <<hook, slider>>

-----------------------------------------------------------------------------
(* Strings *)

None == <<>>
Some(x) == <<x>>
IsNull(o) == o = <<>>
Val(o) == o[1]

NoField == ""

Digits == {"0", "1", "2", "3", "4", "5", "6", "7", "8", "9"}

DigitVal(c) ==
    CASE c = "0" -> 0 [] c = "1" -> 1 [] c = "2" -> 2 [] c = "3" -> 3
      [] c = "4" -> 4 [] c = "5" -> 5 [] c = "6" -> 6 [] c = "7" -> 7
      [] c = "8" -> 8 [] c = "9" -> 9

IsDigitAt(s, i) == i >= 1 /\ i <= Len(s) /\ s[i] \in Digits

IsSpace(c) == c = " "

\* String.prototype.trim
RECURSIVE TrimLeft(_)
TrimLeft(s) == IF s # <<>> /\ IsSpace(Head(s)) THEN TrimLeft(Tail(s)) ELSE s

RECURSIVE TrimRight(_)
TrimRight(s) ==
    IF s # <<>> /\ IsSpace(s[Len(s)]) THEN TrimRight(SubSeq(s, 1, Len(s) - 1)) ELSE s

Trim(s) == TrimRight(TrimLeft(s))

\* .replace(/\s+/g, "")
RemoveSpaces(s) == SelectSeq(s, LAMBDA c : ~IsSpace(c))

\* .replace(/,/g, ".")
CommaToDot(s) == [i \in 1..Len(s) |-> IF s[i] = "," THEN "." ELSE s[i]]

LowerChar(c) ==
    CASE c = "A" -> "a" [] c = "B" -> "b" [] c = "C" -> "c" [] c = "D" -> "d"
      [] c = "E" -> "e" [] c = "F" -> "f" [] c = "G" -> "g" [] c = "H" -> "h"
      [] c = "I" -> "i" [] c = "J" -> "j" [] c = "K" -> "k" [] c = "L" -> "l"
      [] c = "M" -> "m" [] c = "N" -> "n" [] c = "O" -> "o" [] c = "P" -> "p"
      [] c = "Q" -> "q" [] c = "R" -> "r" [] c = "S" -> "s" [] c = "T" -> "t"
      [] c = "U" -> "u" [] c = "V" -> "v" [] c = "W" -> "w" [] c = "X" -> "x"
      [] c = "Y" -> "y" [] c = "Z" -> "z"
      [] OTHER -> c

\* String.prototype.toLowerCase (over the letters A to Z)
ToLowerCase(s) == [i \in 1..Len(s) |-> LowerChar(s[i])]

\* row[key], with undefined read as the empty cell
Get(row, key) == IF key \in DOMAIN row THEN row[key] ELSE <<>>

-----------------------------------------------------------------------------
(* Numbers *)

NaN == [nan |-> TRUE, mant |-> 0, dec |-> 0]

RECURSIVE Pow10(_)
Pow10(k) == IF k = 0 THEN 1 ELSE 10 * Pow10(k - 1)

RECURSIVE Normalise(_, _)
Normalise(m, d) ==
    IF d > 0 /\ m % 10 = 0 THEN Normalise(m \div 10, d - 1)
    ELSE [nan |-> FALSE, mant |-> m, dec |-> d]

\* the number n, an integer
Num(n) == [nan |-> FALSE, mant |-> n, dec |-> 0]

\* x >= n and x <= n for a finite decimal x and an integer n
GeInt(x, n) == x.mant >= n * Pow10(x.dec)
LeInt(x, n) == x.mant <= n * Pow10(x.dec)

\* a < b for finite decimals
LessNum(a, b) == a.mant * Pow10(b.dec) < b.mant * Pow10(a.dec)

\* number of consecutive digits of s from position i on
RECURSIVE DigitRun(_, _)
DigitRun(s, i) == IF IsDigitAt(s, i) THEN 1 + DigitRun(s, i + 1) ELSE 0

\* value of the n digits of s that start at position i
RECURSIVE DigitsValue(_, _, _)
DigitsValue(s, i, n) ==
    IF n = 0 THEN 0
    ELSE DigitsValue(s, i, n - 1) * 10 + DigitVal(s[i + n - 1])

StartsWithAt(s, i, w) ==
    /\ i + Len(w) - 1 <= Len(s)
    /\ \A k \in 1..Len(w) : s[i + k - 1] = w[k]

InfinityWord == <<"I", "n", "f", "i", "n", "i", "t", "y">>

\* Number.parseFloat followed by the callers' Number.isFinite test: the longest
\* prefix of the trimmed text that is a decimal literal (sign, digits, ".",
\* digits, exponent); NaN when there is none or the literal is Infinity.  The
\* exponents of the model's cells stay far from the overflow to Infinity.
ParseFloatFinite(s0) ==
    LET HasDot(s, i) == i <= Len(s) /\ s[i] = "."
        \* sm / 10^nFrac, times 10^ev or 10^-ev when the exponent has digits
        Scaled(sm, nFrac, expNeg, nExp, ev) ==
            IF nExp = 0 THEN Normalise(sm, nFrac)
            ELSE IF expNeg THEN Normalise(sm, nFrac + ev)
            ELSE IF ev >= nFrac THEN Normalise(sm * Pow10(ev - nFrac), 0)
            ELSE Normalise(sm, nFrac - ev)
        \* e: the position after the mantissa; q: after "e" and its sign
        ExponentDigits(s, sm, nFrac, e, q) ==
            Scaled(sm, nFrac, e + 1 <= Len(s) /\ s[e + 1] = "-",
                   DigitRun(s, q), DigitsValue(s, q, DigitRun(s, q)))
        Exponent(s, sm, nFrac, e) ==
            IF e <= Len(s) /\ s[e] \in {"e", "E"}
            THEN ExponentDigits(s, sm, nFrac, e,
                                IF e + 1 <= Len(s) /\ s[e + 1] \in {"-", "+"}
                                THEN e + 2 ELSE e + 1)
            ELSE Normalise(sm, nFrac)
        Mantissa(s, p, nInt, nFrac) ==
            DigitsValue(s, p, nInt) * Pow10(nFrac) + DigitsValue(s, p + nInt + 1, nFrac)
        Literal(s, neg, p, nInt, nFrac) ==
            IF StartsWithAt(s, p, InfinityWord) THEN NaN
            ELSE IF nInt + nFrac = 0 THEN NaN
            ELSE Exponent(s,
                          IF neg THEN 0 - Mantissa(s, p, nInt, nFrac)
                          ELSE Mantissa(s, p, nInt, nFrac),
                          nFrac,
                          p + nInt + (IF HasDot(s, p + nInt) THEN 1 ELSE 0) + nFrac)
        Fraction(s, neg, p, nInt) ==
            Literal(s, neg, p, nInt,
                    IF HasDot(s, p + nInt) THEN DigitRun(s, p + nInt + 1) ELSE 0)
        Signed(s) ==
            Fraction(s, s # <<>> /\ s[1] = "-",
                     IF s # <<>> /\ s[1] \in {"-", "+"} THEN 2 ELSE 1,
                     DigitRun(s, IF s # <<>> /\ s[1] \in {"-", "+"} THEN 2 ELSE 1))
    IN  Signed(TrimLeft(s0))

\* Number.parseInt(text, 10) followed by Number.isFinite: null or the integer
ParseIntFinite(s0) ==
    LET Value(s, neg, p, n) ==
            IF n = 0 THEN None
            ELSE Some(IF neg THEN 0 - DigitsValue(s, p, n) ELSE DigitsValue(s, p, n))
        Signed(s, p) == Value(s, s # <<>> /\ s[1] = "-", p, DigitRun(s, p))
        Text(s) == Signed(s, IF s # <<>> /\ s[1] \in {"-", "+"} THEN 2 ELSE 1)
    IN  Text(TrimLeft(s0))

parseFlexibleFloat(value) ==
    LET Text(s) ==
            IF s = <<>> THEN NaN
            ELSE ParseFloatFinite(CommaToDot(RemoveSpaces(s)))
    IN  Text(Trim(value))

\* mutant: the upper bound of the latitude is not tested
isValidLat_noUpperBound(lat) == ~lat.nan /\ GeInt(lat, -90)

isValidLat(lat) == ~lat.nan /\ GeInt(lat, -90) /\ LeInt(lat, 90)

isValidLon(lon) == ~lon.nan /\ GeInt(lon, -180) /\ LeInt(lon, 180)

-----------------------------------------------------------------------------
(* timeline.js: year, date and day-of-year of a row *)

isReasonableYear(y) == y >= -2000 /\ y <= 3000

\* s.match(/-?\d{3,4}/): the leftmost match, as [neg, at, n] (digits start at
\* `at`, n of them), or <<>> when there is none
RECURSIVE YearMatch(_, _)
YearMatch(s, p) ==
    IF p > Len(s) THEN None
    ELSE IF s[p] = "-" /\ DigitRun(s, p + 1) >= 3
         THEN Some([neg |-> TRUE, at |-> p + 1,
                    n |-> IF DigitRun(s, p + 1) >= 4 THEN 4 ELSE 3])
    ELSE IF DigitRun(s, p) >= 3
         THEN Some([neg |-> FALSE, at |-> p,
                    n |-> IF DigitRun(s, p) >= 4 THEN 4 ELSE 3])
    ELSE YearMatch(s, p + 1)

parseYearValue(v) ==
    LET Year(y) == IF isReasonableYear(y) THEN Some(y) ELSE None
        Matched(s, m) ==
            IF IsNull(m) THEN None
            ELSE Year(IF Val(m).neg THEN 0 - DigitsValue(s, Val(m).at, Val(m).n)
                      ELSE DigitsValue(s, Val(m).at, Val(m).n))
        Text(s) == IF s = <<>> THEN None ELSE Matched(s, YearMatch(s, 1))
    IN  Text(Trim(v))

IsLeap(y) == (y % 4 = 0 /\ y % 100 # 0) \/ y % 400 = 0

DaysInMonth(y, m) ==
    CASE m = 2 -> IF IsLeap(y) THEN 29 ELSE 28
      [] m \in {4, 6, 9, 11} -> 30
      [] OTHER -> 31

\* Date.UTC(y, m - 1, d) for a month and day outside their ranges: the date
\* rolls over into the neighbouring months and years
RECURSIVE RollDay(_, _, _)
RollDay(y, m, d) ==
    IF d < 1
    THEN LET pm == IF m = 1 THEN 12 ELSE m - 1
             py == IF m = 1 THEN y - 1 ELSE y
         IN  RollDay(py, pm, d + DaysInMonth(py, pm))
    ELSE IF d > DaysInMonth(y, m)
    THEN RollDay(IF m = 12 THEN y + 1 ELSE y, IF m = 12 THEN 1 ELSE m + 1,
                 d - DaysInMonth(y, m))
    ELSE [y |-> y, m |-> m, d |-> d]

DateUTC(y, mo, da) ==
    LET yy == IF y >= 0 /\ y <= 99 THEN 1900 + y ELSE y
        y2 == yy + ((mo - 1) \div 12)
        m2 == ((mo - 1) % 12) + 1
    IN  RollDay(y2, m2, da)

\* new Date(s) for the texts the date columns of the model hold: an ISO
\* date-only text YYYY-MM-DD is that UTC day; a month or day out of range, and
\* any other text of the model, is an Invalid Date (<<>>)
DateCtor(s) ==
    LET Day(y, m, d) ==
            IF m >= 1 /\ m <= 12 /\ d >= 1 /\ d <= DaysInMonth(y, m)
            THEN Some([y |-> y, m |-> m, d |-> d])
            ELSE None
    IN  IF /\ Len(s) = 10
           /\ DigitRun(s, 1) = 4 /\ s[5] = "-"
           /\ DigitRun(s, 6) = 2 /\ s[8] = "-"
           /\ DigitRun(s, 9) = 2
        THEN Day(DigitsValue(s, 1, 4), DigitsValue(s, 6, 2), DigitsValue(s, 9, 2))
        ELSE None

IsDateSep(s, i) == i <= Len(s) /\ s[i] \in {"/", "-"}

\* s.match(/^(-?\d{3,4})[\/\-](\d{1,2})[\/\-](\d{1,2})/) and Date.UTC of its groups
DatePattern(s) ==
    LET \* the groups: ny digits at p, nm digits at pm, nd digits at pd
        Groups(neg, p, ny, pm, nm, pd, nd) ==
            IF ny = 0 \/ nm = 0 \/ nd = 0 THEN None
            ELSE Some(DateUTC(IF neg THEN 0 - DigitsValue(s, p, ny)
                              ELSE DigitsValue(s, p, ny),
                              DigitsValue(s, pm, nm), DigitsValue(s, pd, nd)))
        Day(neg, p, ny, pm, nm, pd) ==
            Groups(neg, p, ny, pm, nm, pd,
                   IF DigitRun(s, pd) >= 2 THEN 2 ELSE DigitRun(s, pd))
        Month(neg, p, ny, pm, nm) == Day(neg, p, ny, pm, nm, pm + nm + 1)
        AfterYear(neg, p, ny, pm) ==
            Month(neg, p, ny, pm,
                  IF DigitRun(s, pm) >= 2 /\ IsDateSep(s, pm + 2) THEN 2
                  ELSE IF DigitRun(s, pm) >= 1 /\ IsDateSep(s, pm + 1) THEN 1 ELSE 0)
        Year(neg, p, ny) == AfterYear(neg, p, ny, p + ny + 1)
        \* the year takes 4 digits when a separator follows them, else 3
        Signed(neg, p) ==
            Year(neg, p,
                 IF DigitRun(s, p) >= 4 /\ IsDateSep(s, p + 4) THEN 4
                 ELSE IF DigitRun(s, p) >= 3 /\ IsDateSep(s, p + 3) THEN 3 ELSE 0)
    IN  Signed(s # <<>> /\ s[1] = "-", IF s # <<>> /\ s[1] = "-" THEN 2 ELSE 1)

parseDateValue(v) ==
    LET Parsed(s, d) == IF ~IsNull(d) THEN d ELSE DatePattern(s)
        Text(s) == IF s = <<>> THEN None ELSE Parsed(s, DateCtor(s))
    IN  Text(Trim(v))

getUTCFullYear(d) == d.y

\* Math.floor((Date.UTC(y, m, d) - Date.UTC(y, 0, 1)) / 86400000) + 1
RECURSIVE DaysBefore(_, _)
DaysBefore(y, m) == IF m = 1 THEN 0 ELSE DaysBefore(y, m - 1) + DaysInMonth(y, m - 1)

UTCDayOfYear(d) == DaysBefore(d.y, d.m) + d.d

parseIntSafe(v) == ParseIntFinite(Trim(v))

tryGetYear(row, fields) ==
    LET Pick(y, d) ==
            IF fields.yearField # NoField /\ ~IsNull(y) THEN y
            ELSE IF fields.dateField # NoField /\ ~IsNull(d)
                 THEN Some(getUTCFullYear(Val(d)))
            ELSE None
    IN  Pick(parseYearValue(Get(row, fields.yearField)),
             parseDateValue(Get(row, fields.dateField)))

tryParseDayOfYear(row, fields) ==
    LET Column(n) == IF ~IsNull(n) /\ Val(n) >= 1 /\ Val(n) <= 365 THEN n ELSE None
        Day(doy) == IF doy >= 1 /\ doy <= 365 THEN Some(doy) ELSE None
        Date(d) == IF IsNull(d) THEN None ELSE Day(UTCDayOfYear(Val(d)))
    IN  IF fields.dayOfYearField # NoField
        THEN Column(parseIntSafe(Get(row, fields.dayOfYearField)))
        ELSE IF fields.dateField # NoField
        THEN Date(parseDateValue(Get(row, fields.dateField)))
        ELSE None

\* mutant: the value is not lower-cased
getRowFeatureType_caseSensitive(row, field) ==
    IF field = NoField THEN None
    ELSE LET value == Trim(Get(row, field))
         IN  IF value = <<>> THEN None ELSE Some(value)

\* featureTypes.js
getRowFeatureType(row, field) ==
    LET Value(value) == IF value = <<>> THEN None ELSE Some(ToLowerCase(value))
    IN  IF field = NoField THEN None ELSE Value(Trim(Get(row, field)))

-----------------------------------------------------------------------------
(* derivePoints.js *)

Min(a, b) == IF a < b THEN a ELSE b
Max(a, b) == IF a > b THEN a ELSE b

\* a ?? b
Coalesce(a, b) == IF IsNull(a) THEN b ELSE a

\* mutant: the date column of a side is not consulted
getRangeYear_noDateFallback(row, yearField, dateField) ==
    LET y == parseYearValue(Get(row, yearField))
    IN  IF yearField # NoField /\ ~IsNull(y) THEN y ELSE None

getRangeYear(row, yearField, dateField) ==
    LET Pick(y, d) ==
            IF yearField # NoField /\ ~IsNull(y) THEN y
            ELSE IF dateField # NoField /\ ~IsNull(d) THEN Some(getUTCFullYear(Val(d)))
            ELSE None
    IN  Pick(parseYearValue(Get(row, yearField)), parseDateValue(Get(row, dateField)))

\* mutant: no wraparound, the test is always doy in [startDay, endDay]
DayInRange_noWrap(doy, startDay, endDay) == doy >= startDay /\ doy <= endDay

\* the day-of-year test, the last step of both visibility functions
DayInRange(doy, startDay, endDay) ==
    IF startDay <= endDay
    THEN doy >= startDay /\ doy <= endDay
    ELSE doy >= startDay \/ doy <= endDay

\* a: [row, timelineFields, rangeFields, startYear, endYear, startDay, endDay, dayEnabled]
isPointVisibleForTimeline(a) ==
    LET InRange(from, to) ==
            IF IsNull(from) \/ IsNull(to) THEN FALSE
            ELSE IF ~IsNull(a.endYear) /\ Val(a.endYear) < Min(Val(from), Val(to)) THEN FALSE
            ELSE IF ~IsNull(a.startYear) /\ Val(a.startYear) > Max(Val(from), Val(to))
                 THEN FALSE
            ELSE TRUE
        InTime(year, doy) ==
            IF IsNull(year) THEN FALSE
            ELSE IF ~IsNull(a.startYear) /\ Val(year) < Val(a.startYear) THEN FALSE
            ELSE IF ~IsNull(a.endYear) /\ Val(year) > Val(a.endYear) THEN FALSE
            ELSE IF a.dayEnabled
                 THEN IF IsNull(doy) THEN FALSE
                      ELSE DayInRange(Val(doy), a.startDay, a.endDay)
            ELSE TRUE
        Visible(yearFrom, yearTo) ==
            IF ~IsNull(yearFrom) \/ ~IsNull(yearTo)
            THEN InRange(Coalesce(yearFrom, yearTo), Coalesce(yearTo, yearFrom))
            ELSE InTime(tryGetYear(a.row, a.timelineFields),
                        tryParseDayOfYear(a.row, a.timelineFields))
    IN  Visible(getRangeYear(a.row, a.rangeFields.yearFromField, a.rangeFields.dateFromField),
                getRangeYear(a.row, a.rangeFields.yearToField, a.rangeFields.dateToField))

\* `${i}` for an index i >= 0
RECURSIVE IndexToString(_)
IndexToString(i) ==
    LET c == CHOOSE ch \in Digits : DigitVal(ch) = i % 10
    IN  IF i < 10 THEN <<c>> ELSE Append(IndexToString(i \div 10), c)

MissingMapping == "Missing rows or lat/lon mapping."
NullReason == ""

\* mutant: a null startYear / endYear is passed on as null, the year domain
\* (yearMin, yearMax) is not consulted
VisibilityArgs_noDomainFallback(row, tl, tlFields, rgFields) ==
    [row |-> row,
     timelineFields |-> tlFields,
     rangeFields |-> rgFields,
     startYear |-> tl.startYear,
     endYear |-> tl.endYear,
     startDay |-> tl.startDay,
     endDay |-> tl.endDay,
     dayEnabled |-> tl.dayFilterEnabled]

\* the defaults computed before the loop of derivePointsFromCsv and of
\* deriveRegionsFromCsv (the two functions hold the same lines)
VisibilityArgs(row, tl, tlFields, rgFields) ==
    [row |-> row,
     timelineFields |-> tlFields,
     rangeFields |-> rgFields,
     startYear |-> Coalesce(tl.startYear, tl.yearMin),
     endYear |-> Coalesce(tl.endYear, tl.yearMax),
     startDay |-> tl.startDay,
     endDay |-> tl.endDay,
     dayEnabled |-> tl.dayFilterEnabled]

\* the routing test of derivePointsFromCsv's loop
IsPointCandidate(row, ftField) ==
    LET Routed(featureType) ==
            ~(~IsNull(featureType) /\ Val(featureType) # <<"p", "o", "i", "n", "t">>)
    IN  Routed(getRowFeatureType(row, ftField))

\* mutant: the timeline test comes before the coordinate test
PointStep_timelineFirst(acc, i, row, latF, lonF, tl, tlFields, rgFields, ftField) ==
    LET lat == parseFlexibleFloat(Get(row, latF))
        lon == parseFlexibleFloat(Get(row, lonF))
    IN  IF ~IsPointCandidate(row, ftField) THEN acc
        ELSE IF tl.timelineEnabled
                /\ ~isPointVisibleForTimeline(VisibilityArgs(row, tl, tlFields, rgFields))
             THEN [acc EXCEPT !.skippedByTimeline = @ + 1]
        ELSE IF ~isValidLat(lat) \/ ~isValidLon(lon)
             THEN [acc EXCEPT !.skipped = @ + 1]
        ELSE [acc EXCEPT !.points =
                 Append(@, [id |-> IndexToString(i), lat |-> lat, lon |-> lon, row |-> row])]

\* mutant: a point's id is its position among the points
PointStep_idByPosition(acc, i, row, latF, lonF, tl, tlFields, rgFields, ftField) ==
    LET Step(lat, lon) ==
            IF ~IsPointCandidate(row, ftField) THEN acc
            ELSE IF ~isValidLat(lat) \/ ~isValidLon(lon)
                 THEN [acc EXCEPT !.skipped = @ + 1]
            ELSE IF tl.timelineEnabled
                    /\ ~isPointVisibleForTimeline(VisibilityArgs(row, tl, tlFields, rgFields))
                 THEN [acc EXCEPT !.skippedByTimeline = @ + 1]
            ELSE [acc EXCEPT !.points =
                     Append(@, [id |-> IndexToString(Len(acc.points)), lat |-> lat,
                                lon |-> lon, row |-> row])]
    IN  Step(parseFlexibleFloat(Get(row, latF)), parseFlexibleFloat(Get(row, lonF)))

\* one iteration of derivePointsFromCsv's loop, for rows[i + 1] (index i)
PointStep(acc, i, row, latF, lonF, tl, tlFields, rgFields, ftField) ==
    LET Step(lat, lon) ==
            IF ~IsPointCandidate(row, ftField) THEN acc
            ELSE IF ~isValidLat(lat) \/ ~isValidLon(lon)
                 THEN [acc EXCEPT !.skipped = @ + 1]
            ELSE IF tl.timelineEnabled
                    /\ ~isPointVisibleForTimeline(VisibilityArgs(row, tl, tlFields, rgFields))
                 THEN [acc EXCEPT !.skippedByTimeline = @ + 1]
            ELSE [acc EXCEPT !.points =
                     Append(@, [id |-> IndexToString(i), lat |-> lat, lon |-> lon,
                                row |-> row])]
    IN  Step(parseFlexibleFloat(Get(row, latF)), parseFlexibleFloat(Get(row, lonF)))

RECURSIVE PointLoop(_, _, _, _, _, _, _, _, _)
PointLoop(acc, i, rs, latF, lonF, tl, tlFields, rgFields, ftField) ==
    IF i >= Len(rs) THEN acc
    ELSE PointLoop(PointStep(acc, i, rs[i + 1], latF, lonF, tl, tlFields, rgFields, ftField),
                   i + 1, rs, latF, lonF, tl, tlFields, rgFields, ftField)

derivePointsFromCsv(rs, latF, lonF, tl, tlFields, rgFields, ftField) ==
    LET Result(r) ==
            [points |-> r.points, skipped |-> r.skipped,
             skippedByTimeline |-> r.skippedByTimeline, reason |-> NullReason]
    IN  IF latF = NoField \/ lonF = NoField
        THEN [points |-> <<>>, skipped |-> 0, skippedByTimeline |-> 0,
              reason |-> MissingMapping]
        ELSE Result(PointLoop([points |-> <<>>, skipped |-> 0, skippedByTimeline |-> 0],
                              0, rs, latF, lonF, tl, tlFields, rgFields, ftField))

-----------------------------------------------------------------------------
(* deriveRegions.js *)

RegionWord == <<"r", "e", "g", "i", "o", "n">>

getRangeYear_regions(row, yearField, dateField) ==
    LET Pick(y, d) ==
            IF yearField # NoField /\ ~IsNull(y) THEN y
            ELSE IF dateField # NoField /\ ~IsNull(d) THEN Some(getUTCFullYear(Val(d)))
            ELSE None
    IN  Pick(parseYearValue(Get(row, yearField)), parseDateValue(Get(row, dateField)))

\* mutant: the day-of-year filter is applied to interval rows too
isRowVisibleForTimeline_dayOnRanges(a) ==
    LET yearFrom == getRangeYear_regions(a.row, a.rangeFields.yearFromField,
                                         a.rangeFields.dateFromField)
        yearTo == getRangeYear_regions(a.row, a.rangeFields.yearToField,
                                       a.rangeFields.dateToField)
        hasRange == ~IsNull(yearFrom) \/ ~IsNull(yearTo)
        from == Coalesce(yearFrom, yearTo)
        to == Coalesce(yearTo, yearFrom)
        year == tryGetYear(a.row, a.timelineFields)
        doy == tryParseDayOfYear(a.row, a.timelineFields)
        dayOk == ~a.dayEnabled \/ (~IsNull(doy) /\ DayInRange(Val(doy), a.startDay, a.endDay))
    IN  IF hasRange
        THEN /\ ~(~IsNull(a.endYear) /\ Val(a.endYear) < Min(Val(from), Val(to)))
             /\ ~(~IsNull(a.startYear) /\ Val(a.startYear) > Max(Val(from), Val(to)))
             /\ dayOk
        ELSE /\ ~IsNull(year)
             /\ ~(~IsNull(a.startYear) /\ Val(year) < Val(a.startYear))
             /\ ~(~IsNull(a.endYear) /\ Val(year) > Val(a.endYear))
             /\ dayOk

isRowVisibleForTimeline(a) ==
    LET InRange(from, to) ==
            IF IsNull(from) \/ IsNull(to) THEN FALSE
            ELSE IF ~IsNull(a.endYear) /\ Val(a.endYear) < Min(Val(from), Val(to)) THEN FALSE
            ELSE IF ~IsNull(a.startYear) /\ Val(a.startYear) > Max(Val(from), Val(to))
                 THEN FALSE
            ELSE TRUE
        InTime(year, doy) ==
            IF IsNull(year) THEN FALSE
            ELSE IF ~IsNull(a.startYear) /\ Val(year) < Val(a.startYear) THEN FALSE
            ELSE IF ~IsNull(a.endYear) /\ Val(year) > Val(a.endYear) THEN FALSE
            ELSE IF a.dayEnabled
                 THEN IF IsNull(doy) THEN FALSE
                      ELSE DayInRange(Val(doy), a.startDay, a.endDay)
            ELSE TRUE
        Visible(yearFrom, yearTo) ==
            IF ~IsNull(yearFrom) \/ ~IsNull(yearTo)
            THEN InRange(Coalesce(yearFrom, yearTo), Coalesce(yearTo, yearFrom))
            ELSE InTime(tryGetYear(a.row, a.timelineFields),
                        tryParseDayOfYear(a.row, a.timelineFields))
    IN  Visible(getRangeYear_regions(a.row, a.rangeFields.yearFromField,
                                     a.rangeFields.dateFromField),
                getRangeYear_regions(a.row, a.rangeFields.yearToField,
                                     a.rangeFields.dateToField))

\* null (<<>>) or the finite number
parseOrderValue(value) ==
    LET Finite(n) == IF n.nan THEN None ELSE Some(n)
    IN  Finite(ParseFloatFinite(Trim(value)))

parseNumber(value) ==
    LET Finite(n) == IF n.nan THEN None ELSE Some(n)
    IN  Finite(ParseFloatFinite(Trim(value)))

\* item.orderValue ?? item.index
getOrderKey(item) == IF IsNull(item.orderValue) THEN Num(item.index) ELSE Val(item.orderValue)

\* mutant: only the first components are compared
isRingClosed_latOnly(coords) ==
    IF Len(coords) = 0 THEN TRUE
    ELSE coords[1][1] = coords[Len(coords)][1]

isRingClosed(coords) ==
    IF Len(coords) = 0 THEN TRUE
    ELSE coords[1][1] = coords[Len(coords)][1] /\ coords[1][2] = coords[Len(coords)][2]

\* A JS Map is the sequence of its entries in insertion order.
MapHas(m, k) == \E j \in 1..Len(m) : m[j].key = k
MapIndex(m, k) == CHOOSE j \in 1..Len(m) : m[j].key = k

\* the routing test of deriveRegionsFromCsv's first loop
IsRegionRow(row, ftField) ==
    LET Routed(featureType) == ~IsNull(featureType) /\ Val(featureType) = RegionWord
    IN  Routed(getRowFeatureType(row, ftField))

\* groups after one accepted row: the group and the part are created when
\* missing, popupRow is set once, the vertex is pushed
\* mutant: the group's popupRow is never recorded
AddVertex_noPopup(groups, featureId, part, item) ==
    LET Push(g1, gi, group, parts1) ==
            [g1 EXCEPT ![gi] =
                [group EXCEPT
                    !.parts = [parts1 EXCEPT ![MapIndex(parts1, part)].rows = Append(@, item)]]]
        InGroup(g1, gi, group) ==
            Push(g1, gi, group,
                 IF MapHas(group.parts, part) THEN group.parts
                 ELSE Append(group.parts, [key |-> part, rows |-> <<>>]))
        Found(g1, gi) == InGroup(g1, gi, g1[gi])
        WithGroup(g1) == Found(g1, MapIndex(g1, featureId))
    IN  WithGroup(IF MapHas(groups, featureId) THEN groups
                  ELSE Append(groups, [key |-> featureId, parts |-> <<>>,
                                       firstPartKey |-> part, popupRow |-> None]))

AddVertex(groups, featureId, part, item) ==
    LET Push(g1, gi, group, parts1) ==
            [g1 EXCEPT ![gi] =
                [group EXCEPT
                    !.parts = [parts1 EXCEPT ![MapIndex(parts1, part)].rows = Append(@, item)],
                    !.popupRow = IF IsNull(group.popupRow) /\ group.firstPartKey = part
                                 THEN Some(item.row) ELSE group.popupRow]]
        InGroup(g1, gi, group) ==
            Push(g1, gi, group,
                 IF MapHas(group.parts, part) THEN group.parts
                 ELSE Append(group.parts, [key |-> part, rows |-> <<>>]))
        Found(g1, gi) == InGroup(g1, gi, g1[gi])
        WithGroup(g1) == Found(g1, MapIndex(g1, featureId))
    IN  WithGroup(IF MapHas(groups, featureId) THEN groups
                  ELSE Append(groups, [key |-> featureId, parts |-> <<>>,
                                       firstPartKey |-> part, popupRow |-> None]))

\* mutant: a blank part is kept as the part key "" instead of "0"
RegionStep_noPartDefault(acc, i, row, latF, lonF, tl, tlFields, rgFields, ftField) ==
    LET featureId == Trim(Get(row, "featureId"))
        part == Trim(Get(row, "part"))
        lat == parseFlexibleFloat(Get(row, latF))
        lon == parseFlexibleFloat(Get(row, lonF))
        item == [row |-> row, lat |-> lat, lon |-> lon,
                 orderValue |-> parseOrderValue(Get(row, "order")), index |-> i]
    IN  IF ~IsRegionRow(row, ftField) THEN acc
        ELSE IF tl.timelineEnabled
                /\ ~isRowVisibleForTimeline(VisibilityArgs(row, tl, tlFields, rgFields))
             THEN [acc EXCEPT !.skippedByTimeline = @ + 1]
        ELSE IF featureId = <<>> THEN [acc EXCEPT !.skipped = @ + 1]
        ELSE IF ~isValidLat(lat) \/ ~isValidLon(lon) THEN [acc EXCEPT !.skipped = @ + 1]
        ELSE [acc EXCEPT !.groups = AddVertex(@, featureId, part, item)]

\* one iteration of deriveRegionsFromCsv's first loop, for rows[i + 1] (index i)
RegionStep(acc, i, row, latF, lonF, tl, tlFields, rgFields, ftField) ==
    LET Step(featureId, partRaw, lat, lon) ==
            IF ~IsRegionRow(row, ftField) THEN acc
            ELSE IF tl.timelineEnabled
                    /\ ~isRowVisibleForTimeline(VisibilityArgs(row, tl, tlFields, rgFields))
                 THEN [acc EXCEPT !.skippedByTimeline = @ + 1]
            ELSE IF featureId = <<>> THEN [acc EXCEPT !.skipped = @ + 1]
            ELSE IF ~isValidLat(lat) \/ ~isValidLon(lon) THEN [acc EXCEPT !.skipped = @ + 1]
            ELSE [acc EXCEPT !.groups =
                     AddVertex(@, featureId,
                               IF partRaw # <<>> THEN partRaw ELSE <<"0">>,
                               [row |-> row, lat |-> lat, lon |-> lon,
                                orderValue |-> parseOrderValue(Get(row, "order")),
                                index |-> i])]
    IN  Step(Trim(Get(row, "featureId")), Trim(Get(row, "part")),
             parseFlexibleFloat(Get(row, latF)), parseFlexibleFloat(Get(row, lonF)))

RECURSIVE RegionLoop(_, _, _, _, _, _, _, _, _)
RegionLoop(acc, i, rs, latF, lonF, tl, tlFields, rgFields, ftField) ==
    IF i >= Len(rs) THEN acc
    ELSE RegionLoop(RegionStep(acc, i, rs[i + 1], latF, lonF, tl, tlFields, rgFields, ftField),
                    i + 1, rs, latF, lonF, tl, tlFields, rgFields, ftField)

\* Array.prototype.sort with (a, b) => getOrderKey(a) - getOrderKey(b): a stable
\* sort, here by insertion from the left
\* mutant: an item goes before the items of equal key
RECURSIVE InsertSorted_tiesReversed(_, _)
InsertSorted_tiesReversed(sorted, item) ==
    IF sorted = <<>> THEN <<item>>
    ELSE IF ~LessNum(getOrderKey(sorted[Len(sorted)]), getOrderKey(item))
         THEN Append(InsertSorted_tiesReversed(SubSeq(sorted, 1, Len(sorted) - 1), item),
                     sorted[Len(sorted)])
    ELSE Append(sorted, item)

RECURSIVE InsertSorted(_, _)
InsertSorted(sorted, item) ==
    IF sorted = <<>> THEN <<item>>
    ELSE IF LessNum(getOrderKey(item), getOrderKey(sorted[Len(sorted)]))
         THEN Append(InsertSorted(SubSeq(sorted, 1, Len(sorted) - 1), item),
                     sorted[Len(sorted)])
    ELSE Append(sorted, item)

RECURSIVE SortByOrderKey(_)
SortByOrderKey(items) ==
    IF items = <<>> THEN <<>>
    ELSE InsertSorted(SortByOrderKey(SubSeq(items, 1, Len(items) - 1)), items[Len(items)])

DefaultColor == <<"#", "3", "3", "8", "8", "f", "f">>

DEFAULT_STYLE ==
    [color |-> DefaultColor,
     weight |-> Num(2),
     opacity |-> Num(1),
     fillColor |-> DefaultColor,
     fillOpacity |-> Normalise(25, 2)]

\* mutant: a later non-empty value replaces the one already set
applyFirstNonEmpty_lastWins(current, value, isNumber) ==
    LET Parsed(parsed) ==
            IF IsNull(parsed) \/ (~isNumber /\ Val(parsed) = <<>>) THEN current
            ELSE parsed
        Raw(raw) ==
            IF raw = <<>> THEN current
            ELSE Parsed(IF isNumber THEN parseNumber(raw) ELSE Some(raw))
    IN  Raw(Trim(value))

\* target[key] after applyFirstNonEmpty(target, key, value, parser); an unset
\* key is <<>>.  isNumber says whether parseNumber is the parser.
applyFirstNonEmpty(current, value, isNumber) ==
    LET Parsed(parsed) ==
            IF IsNull(parsed) \/ (~isNumber /\ Val(parsed) = <<>>) THEN current
            ELSE parsed
        Raw(raw) ==
            IF raw = <<>> THEN current
            ELSE Parsed(IF isNumber THEN parseNumber(raw) ELSE Some(raw))
    IN  IF ~IsNull(current) /\ (isNumber \/ Val(current) # <<>>) THEN current
        ELSE Raw(Trim(value))

StyleStep(style, row) ==
    [color |-> applyFirstNonEmpty(style.color, Get(row, "color"), FALSE),
     weight |-> applyFirstNonEmpty(style.weight, Get(row, "weight"), TRUE),
     opacity |-> applyFirstNonEmpty(style.opacity, Get(row, "opacity"), TRUE),
     fillColor |-> applyFirstNonEmpty(style.fillColor, Get(row, "fillColor"), FALSE),
     fillOpacity |-> applyFirstNonEmpty(style.fillOpacity, Get(row, "fillOpacity"), TRUE)]

RECURSIVE StyleScan(_, _, _)
StyleScan(style, items, k) ==
    IF k > Len(items) THEN style
    ELSE StyleScan(StyleStep(style, items[k].row), items, k + 1)

\* mutant: color and fillColor are resolved independently of each other
resolveStyle_noCrossFill(items) ==
    LET Resolved(style) ==
            [k \in DOMAIN DEFAULT_STYLE |->
                IF IsNull(style[k]) THEN DEFAULT_STYLE[k] ELSE Val(style[k])]
    IN  Resolved(StyleScan([color |-> None, weight |-> None, opacity |-> None,
                            fillColor |-> None, fillOpacity |-> None], items, 1))

resolveStyle(items) ==
    LET \* the last step: color takes fillColor when no row set it
        FillToColor(r1, hasColor) ==
            IF ~hasColor /\ r1.fillColor # <<>>
            THEN [r1 EXCEPT !.color = r1.fillColor] ELSE r1
        \* fillColor takes color when no row set it
        ColorToFill(merged, hasColor, hasFillColor) ==
            FillToColor(IF ~hasFillColor /\ merged.color # <<>>
                        THEN [merged EXCEPT !.fillColor = merged.color] ELSE merged,
                        hasColor)
        \* { ...DEFAULT_STYLE, ...style }
        Resolved(style) ==
            ColorToFill([k \in DOMAIN DEFAULT_STYLE |->
                            IF IsNull(style[k]) THEN DEFAULT_STYLE[k] ELSE Val(style[k])],
                        ~IsNull(style.color), ~IsNull(style.fillColor))
    IN  Resolved(StyleScan([color |-> None, weight |-> None, opacity |-> None,
                            fillColor |-> None, fillOpacity |-> None], items, 1))

\* mutant: a part of exactly three vertices is dropped too
EmitPart_moreThanThree(featureId, group, part, partGroup) ==
    LET sorted == SortByOrderKey(partGroup.rows)
        coordinates == [k \in 1..Len(sorted) |-> <<sorted[k].lat, sorted[k].lon>>]
        closed == IF ~isRingClosed(coordinates)
                  THEN Append(coordinates, coordinates[1]) ELSE coordinates
    IN  IF Len(sorted) <= 3 THEN <<>>
        ELSE <<[id |-> featureId \o <<":">> \o part,
                featureId |-> featureId,
                part |-> part,
                coordinates |-> closed,
                row |-> IF ~IsNull(group.popupRow) THEN Val(group.popupRow)
                        ELSE sorted[1].row,
                style |-> resolveStyle(sorted)]>>

\* the body of deriveRegionsFromCsv's second loop for one part: no polygon
\* (<<>>) or the polygon pushed
EmitPart(featureId, group, part, partGroup) ==
    LET Polygon(sorted, coordinates) ==
            [id |-> featureId \o <<":">> \o part,
             featureId |-> featureId,
             part |-> part,
             coordinates |-> IF ~isRingClosed(coordinates)
                             THEN Append(coordinates, coordinates[1]) ELSE coordinates,
             row |-> IF ~IsNull(group.popupRow) THEN Val(group.popupRow)
                     ELSE sorted[1].row,
             style |-> resolveStyle(sorted)]
        Sorted(sorted) ==
            IF Len(sorted) < 3 THEN <<>>
            ELSE <<Polygon(sorted, [k \in 1..Len(sorted) |-> <<sorted[k].lat, sorted[k].lon>>])>>
    IN  Sorted(SortByOrderKey(partGroup.rows))

RECURSIVE EmitParts(_, _, _)
EmitParts(featureId, group, k) ==
    IF k > Len(group.parts) THEN <<>>
    ELSE EmitPart(featureId, group, group.parts[k].key, group.parts[k])
           \o EmitParts(featureId, group, k + 1)

RECURSIVE EmitGroups(_, _)
EmitGroups(groups, k) ==
    IF k > Len(groups) THEN <<>>
    ELSE EmitParts(groups[k].key, groups[k], 1) \o EmitGroups(groups, k + 1)

\* deriveRegionsFromCsv's state at the end of its first loop
RegionGroups(rs, latF, lonF, tl, tlFields, rgFields, ftField) ==
    IF latF = NoField \/ lonF = NoField \/ ftField = NoField
    THEN [groups |-> <<>>, skipped |-> 0, skippedByTimeline |-> 0]
    ELSE RegionLoop([groups |-> <<>>, skipped |-> 0, skippedByTimeline |-> 0],
                    0, rs, latF, lonF, tl, tlFields, rgFields, ftField)

deriveRegionsFromCsv(rs, latF, lonF, tl, tlFields, rgFields, ftField) ==
    LET Result(r) ==
            [polygons |-> EmitGroups(r.groups, 1), skipped |-> r.skipped,
             skippedByTimeline |-> r.skippedByTimeline, reason |-> NullReason]
    IN  IF latF = NoField \/ lonF = NoField
        THEN [polygons |-> <<>>, skipped |-> 0, skippedByTimeline |-> 0,
              reason |-> MissingMapping]
        ELSE IF ftField = NoField
        THEN [polygons |-> <<>>, skipped |-> 0, skippedByTimeline |-> 0,
              reason |-> NullReason]
        ELSE Result(RegionGroups(rs, latF, lonF, tl, tlFields, rgFields, ftField))

-----------------------------------------------------------------------------
(* The calls.  The inputs of a call are the state; each action applies one   *)
(* function to them and records what it returns (<<>> before the first call). *)

DerivePoints ==
    /\ pointsOut' = Some(derivePointsFromCsv(rows, latField, lonField, timeline,
                                             timelineFields, rangeFields, featureTypeField))
    /\ UNCHANGED <<rows, latField, lonField, featureTypeField, timeline, timelineFields,
                   rangeFields, regionsOut, groupsOut, visArgs, visOut>>
    /\ UNCHANGED <<csvVars, detectVars, uiVars>>

DeriveRegions ==
    /\ regionsOut' = Some(deriveRegionsFromCsv(rows, latField, lonField, timeline,
                                               timelineFields, rangeFields, featureTypeField))
    /\ groupsOut' = Some(RegionGroups(rows, latField, lonField, timeline,
                                      timelineFields, rangeFields, featureTypeField).groups)
    /\ UNCHANGED <<rows, latField, lonField, featureTypeField, timeline, timelineFields,
                   rangeFields, pointsOut, visArgs, visOut>>
    /\ UNCHANGED <<csvVars, detectVars, uiVars>>

CheckVisibility ==
    /\ visOut' = Some([point |-> isPointVisibleForTimeline(visArgs),
                       region |-> isRowVisibleForTimeline(visArgs)])
    /\ UNCHANGED <<rows, latField, lonField, featureTypeField, timeline, timelineFields,
                   rangeFields, pointsOut, regionsOut, groupsOut, visArgs>>
    /\ UNCHANGED <<csvVars, detectVars, uiVars>>

\* useTimelineFilterState.js DEFAULT_STATE, the fields the derivations read
DEFAULT_STATE ==
    [timelineEnabled |-> FALSE, yearMin |-> None, yearMax |-> None,
     startYear |-> None, endYear |-> None,
     dayFilterEnabled |-> FALSE, startDay |-> 1, endDay |-> 365]

NoTimelineFields == [yearField |-> NoField, dateField |-> NoField, dayOfYearField |-> NoField]
NoRangeFields ==
    [yearFromField |-> NoField, yearToField |-> NoField,
     dateFromField |-> NoField, dateToField |-> NoField]

\* the roles detection gives the headers year, date, doy and yearFrom .. dateTo
AllTimelineFields == [yearField |-> "year", dateField |-> "date", dayOfYearField |-> "doy"]
AllRangeFields ==
    [yearFromField |-> "yearFrom", yearToField |-> "yearTo",
     dateFromField |-> "dateFrom", dateToField |-> "dateTo"]

NoCall ==
    [row |-> <<>>, timelineFields |-> NoTimelineFields, rangeFields |-> NoRangeFields,
     startYear |-> None, endYear |-> None, startDay |-> 1, endDay |-> 365,
     dayEnabled |-> FALSE]

SeqsUpTo(S, n) == UNION {[1..k -> S] : k \in 0..n}

\* no derivation has run on the inputs chosen
\* no file is being parsed and no header list is being scanned
InitIdle ==
    /\ csvText = <<>> /\ papaErrors = 0 /\ parseOut = None
    /\ headers = <<>> /\ detectOut = None
    /\ hook = None /\ slider = None

InitDerive ==
    /\ pointsOut = None /\ regionsOut = None /\ groupsOut = None
    /\ visArgs = NoCall /\ visOut = None
    /\ InitIdle

NextDerive == DerivePoints \/ DeriveRegions

-----------------------------------------------------------------------------
(* SpecTimeline: direct calls of the two visibility functions.               *)

Blank == <<>>

\* interval columns
YearFromCells == {Blank, <<"1", "9", "2", "0">>, <<"1", "9", "6", "0">>, <<"x">>}
YearToCells == {Blank, <<"1", "9", "6", "0">>, <<"1", "9", "7", "0">>, <<"1", "9", "0", "0">>}
DateFromCells == {Blank, <<"1", "9", "3", "0", "-", "0", "6", "-", "0", "1">>}
DateToCells == {Blank, <<"1", "9", "4", "0", "-", "0", "1", "-", "0", "5">>}

\* point-in-time columns: 5 January (day 5), 19 July (day 200), and 31 December
\* of a leap year (day 366)
YearCells == {Blank, <<"1", "9", "2", "0">>, <<"1", "9", "6", "0">>}
DateCells == {Blank, <<"1", "9", "5", "0", "-", "0", "1", "-", "0", "5">>, <<"1", "9", "5", "0", "-", "0", "7", "-", "1", "9">>, <<"1", "9", "5", "2", "-", "1", "2", "-", "3", "1">>}
DoyCells == {Blank, <<"5">>, <<"2", "0", "0">>, <<"4", "0", "0">>}

TimeRow(yf, yt, df, dt, y, d, n) ==
    [yearFrom |-> yf, yearTo |-> yt, dateFrom |-> df, dateTo |-> dt,
     year |-> y, date |-> d, doy |-> n]

\* rows that vary the interval columns, and rows that vary the point-in-time columns
IntervalRows ==
    {TimeRow(yf, yt, df, dt, pt[1], pt[2], pt[3]) :
        yf \in YearFromCells, yt \in YearToCells, df \in DateFromCells, dt \in DateToCells,
        pt \in {<<Blank, Blank, Blank>>,
                <<<<"1", "9", "2", "0">>, <<"1", "9", "5", "0", "-", "0", "7", "-", "1", "9">>, <<"2", "0", "0">>>>,
                <<Blank, <<"1", "9", "5", "0", "-", "0", "1", "-", "0", "5">>, <<"5">>>>}}

PointInTimeRows ==
    {TimeRow(r, Blank, Blank, r, y, d, n) :
        r \in {Blank, <<"x">>}, y \in YearCells, d \in DateCells, n \in DoyCells}

RangeFieldChoices ==
    {AllRangeFields, NoRangeFields,
     [AllRangeFields EXCEPT !.yearFromField = NoField, !.yearToField = NoField]}

TimelineFieldChoices ==
    {AllTimelineFields, [AllTimelineFields EXCEPT !.dayOfYearField = NoField]}

StartYears == {None, <<1900>>, <<1950>>}
EndYears == {None, <<1950>>}

\* [dayEnabled, startDay, endDay]
DaySettings == {<<FALSE, 1, 365>>, <<TRUE, 1, 365>>, <<TRUE, 350, 10>>, <<TRUE, 100, 300>>}

InitTimeline ==
    /\ rows = <<>> /\ latField = NoField /\ lonField = NoField
    /\ featureTypeField = NoField /\ timeline = DEFAULT_STATE
    /\ timelineFields = NoTimelineFields /\ rangeFields = NoRangeFields
    /\ pointsOut = None /\ regionsOut = None /\ groupsOut = None
    /\ visOut = None
    /\ InitIdle
    /\ \E row \in IntervalRows \cup PointInTimeRows, tf \in TimelineFieldChoices,
          rf \in RangeFieldChoices, sy \in StartYears, ey \in EndYears, ds \in DaySettings :
          visArgs = [row |-> row, timelineFields |-> tf, rangeFields |-> rf,
                     startYear |-> sy, endYear |-> ey,
                     dayEnabled |-> ds[1], startDay |-> ds[2], endDay |-> ds[3]]

NextTimeline == CheckVisibility

SpecTimeline == InitTimeline /\ [][NextTimeline]_vars

-----------------------------------------------------------------------------
(* Properties of the visibility functions (SpecTimeline) *)

\* one side of a row's interval as the claims word it: the year column, else
\* the year of the side's date column
SideYear(row, yearField, dateField) ==
    IF yearField # NoField /\ ~IsNull(parseYearValue(Get(row, yearField)))
    THEN parseYearValue(Get(row, yearField))
    ELSE IF dateField # NoField /\ ~IsNull(parseDateValue(Get(row, dateField)))
    THEN Some(Val(parseDateValue(Get(row, dateField))).y)
    ELSE None

SideFrom(a) == SideYear(a.row, a.rangeFields.yearFromField, a.rangeFields.dateFromField)
SideTo(a) == SideYear(a.row, a.rangeFields.yearToField, a.rangeFields.dateToField)
HasInterval(a) == ~IsNull(SideFrom(a)) \/ ~IsNull(SideTo(a))

\* the set of the resolved sides' years
SideYears(a) ==
    {Val(o) : o \in {SideFrom(a), SideTo(a)} \ {None}}

RangeStartOf(a) == CHOOSE y \in SideYears(a) : \A z \in SideYears(a) : y <= z
RangeEndOf(a) == CHOOSE y \in SideYears(a) : \A z \in SideYears(a) : y >= z

IntervalOverlaps(a) ==
    /\ ~(~IsNull(a.endYear) /\ Val(a.endYear) < RangeStartOf(a))
    /\ ~(~IsNull(a.startYear) /\ Val(a.startYear) > RangeEndOf(a))

\* C1: for a row from which at least one interval side resolves, a single
\* resolved side is both bounds, rangeStart / rangeEnd are the min / max of the
\* sides, and the row is visible iff neither (endYear set and endYear <
\* rangeStart) nor (startYear set and startYear > rangeEnd); the same for the
\* point filter and the region filter.
C1_IntervalOverlap ==
    (~IsNull(visOut) /\ HasInterval(visArgs)) =>
        /\ Val(visOut).point = IntervalOverlaps(visArgs)
        /\ Val(visOut).region = IntervalOverlaps(visArgs)

\* C1 witness: only the To side resolves (through its date column), both window
\* bounds are set and the row is shown by both filters
C1_Witness ==
    /\ ~IsNull(visOut)
    /\ IsNull(SideFrom(visArgs)) /\ SideTo(visArgs) = <<1940>>
    /\ visArgs.startYear = <<1900>> /\ visArgs.endYear = <<1950>>
    /\ Val(visOut).point /\ Val(visOut).region

WithDay(a, ds) == [a EXCEPT !.dayEnabled = ds[1], !.startDay = ds[2], !.endDay = ds[3]]
WithDayCells(a, d, n) == [a EXCEPT !.row = [@ EXCEPT !.date = d, !.doy = n]]

\* other contents of the date and day-of-year columns: <<date, doy>>
AltDayCells ==
    {<<Blank, Blank>>, <<<<"1", "9", "5", "0", "-", "0", "1", "-", "0", "5">>, <<"5">>>>, <<<<"1", "9", "5", "0", "-", "0", "7", "-", "1", "9">>, <<"2", "0", "0">>>>, <<<<"1", "9", "5", "2", "-", "1", "2", "-", "3", "1">>, <<"4", "0", "0">>>>}

\* C2: for a row with a resolvable interval, visibility is the same under any
\* two configurations that differ only in dayFilterEnabled, startDay, endDay,
\* whatever the row's date and day-of-year columns hold.
C2_DayFilterIgnoredForIntervals ==
    (~IsNull(visOut) /\ HasInterval(visArgs)) =>
        \A ds \in DaySettings, c \in AltDayCells :
            /\ isPointVisibleForTimeline(WithDayCells(WithDay(visArgs, ds), c[1], c[2]))
                  = Val(visOut).point
            /\ isRowVisibleForTimeline(WithDayCells(WithDay(visArgs, ds), c[1], c[2]))
                  = Val(visOut).region

\* C2 witness: an interval row shown although the day filter is on and the row's
\* day-of-year (200) is outside [350 .. 10]
C2_Witness ==
    /\ ~IsNull(visOut) /\ HasInterval(visArgs)
    /\ visArgs.dayEnabled /\ visArgs.startDay = 350 /\ visArgs.endDay = 10
    /\ tryParseDayOfYear(visArgs.row, visArgs.timelineFields) = <<200>>
    /\ Val(visOut).point /\ Val(visOut).region

\* the year of a row as C3 words it: the year column, else the year of the date column
PointYear(a) ==
    SideYear(a.row, a.timelineFields.yearField, a.timelineFields.dateField)

DayTest(doy, startDay, endDay) ==
    IF startDay <= endDay THEN doy \in startDay..endDay
    ELSE doy >= startDay \/ doy <= endDay

PointInTimeVisible(a) ==
    /\ ~IsNull(PointYear(a))
    /\ IsNull(a.startYear) \/ Val(PointYear(a)) >= Val(a.startYear)
    /\ IsNull(a.endYear) \/ Val(PointYear(a)) <= Val(a.endYear)
    /\ a.dayEnabled =>
          /\ ~IsNull(tryParseDayOfYear(a.row, a.timelineFields))
          /\ DayTest(Val(tryParseDayOfYear(a.row, a.timelineFields)), a.startDay, a.endDay)

\* C3: a row with no resolvable interval is visible iff a year resolves, it is
\* within the set bounds, and, with the day filter on, its day-of-year resolves
\* and is in [startDay, endDay], wrapping around when startDay > endDay.
C3_PointInTime ==
    (~IsNull(visOut) /\ ~HasInterval(visArgs)) =>
        /\ Val(visOut).point = PointInTimeVisible(visArgs)
        /\ Val(visOut).region = PointInTimeVisible(visArgs)

\* C3 witness: startDay = 350, endDay = 10 shows a row of day 5
C3_Witness ==
    /\ ~IsNull(visOut) /\ ~HasInterval(visArgs)
    /\ visArgs.dayEnabled /\ visArgs.startDay = 350 /\ visArgs.endDay = 10
    /\ tryParseDayOfYear(visArgs.row, visArgs.timelineFields) = <<5>>
    /\ Val(visOut).point /\ Val(visOut).region

\* the wraparound example of C3: day 200 is hidden by [350 .. 10]
C3_WraparoundHides ==
    (/\ ~IsNull(visOut) /\ ~HasInterval(visArgs)
     /\ visArgs.dayEnabled /\ visArgs.startDay = 350 /\ visArgs.endDay = 10
     /\ tryParseDayOfYear(visArgs.row, visArgs.timelineFields) = <<200>>)
        => (~Val(visOut).point /\ ~Val(visOut).region)

-----------------------------------------------------------------------------
(* SpecWindow: derivation over rows with valid coordinates, under timeline   *)
(* states that vary the selected window and the year domain.                 *)

MaxWindowRows == 1

PointWord == <<"p", "o", "i", "n", "t">>

WindowRow(ft, y, yf, yt) ==
    [featureType |-> ft, featureId |-> <<"A">>, lat |-> <<"1", "0">>, lon |-> <<"2", "0">>,
     year |-> y, yearFrom |-> yf, yearTo |-> yt]

WindowRows ==
    {WindowRow(ft, y, iv[1], iv[2]) :
        ft \in {PointWord, RegionWord},
        y \in {Blank, <<"1", "9", "0", "0">>, <<"1", "9", "6", "0">>, <<"2", "0", "0", "0">>},
        iv \in {<<Blank, Blank>>, <<<<"1", "9", "2", "0">>, <<"1", "9", "4", "0">>>>}}

WindowTimelines ==
    {[timelineEnabled |-> en, yearMin |-> lo, yearMax |-> hi,
      startYear |-> sy, endYear |-> ey,
      dayFilterEnabled |-> df, startDay |-> 1, endDay |-> 365] :
        en \in BOOLEAN, lo \in {None, <<1950>>}, hi \in {None, <<1970>>},
        sy \in {None, <<1950>>}, ey \in {None, <<1970>>}, df \in BOOLEAN}

InitWindow ==
    /\ InitDerive
    /\ rows \in SeqsUpTo(WindowRows, MaxWindowRows)
    /\ latField = "lat" /\ lonField = "lon" /\ featureTypeField = "featureType"
    /\ timeline \in WindowTimelines
    /\ timelineFields = [AllTimelineFields EXCEPT !.dateField = NoField,
                                                  !.dayOfYearField = NoField]
    /\ rangeFields \in {NoRangeFields,
                        [AllRangeFields EXCEPT !.dateFromField = NoField,
                                               !.dateToField = NoField]}

SpecWindow == InitWindow /\ [][NextDerive]_vars

\* row i (from 0) gave a point / a vertex
PointEmitted(i) == \E k \in 1..Len(Val(pointsOut).points) :
                      Val(pointsOut).points[k].id = IndexToString(i)

\* the vertices held by the groups, whatever their featureId and part
VertexItems(groups) ==
    UNION {UNION {{groups[g].parts[q].rows[k] : k \in 1..Len(groups[g].parts[q].rows)} :
                     q \in 1..Len(groups[g].parts)} :
              g \in 1..Len(groups)}

VertexIndices == {it.index : it \in VertexItems(Val(groupsOut))}

\* visibility of a row under the window [lower, upper], null being unbounded,
\* as C1 and C3 state it
VisibleInWindow(row, lower, upper) ==
    LET a == [row |-> row, timelineFields |-> timelineFields, rangeFields |-> rangeFields,
              startYear |-> lower, endYear |-> upper,
              startDay |-> timeline.startDay, endDay |-> timeline.endDay,
              dayEnabled |-> timeline.dayFilterEnabled]
    IN  IF HasInterval(a) THEN IntervalOverlaps(a) ELSE PointInTimeVisible(a)

\* every row of the window rows is shown iff the timeline is off or the row is
\* visible in [lower, upper]
ShownIffInWindow(lower, upper) ==
    /\ ~IsNull(pointsOut) =>
          \A i \in 1..Len(rows) :
              Get(rows[i], "featureType") = PointWord =>
                  (PointEmitted(i - 1) <=>
                      (~timeline.timelineEnabled \/ VisibleInWindow(rows[i], lower, upper)))
    /\ ~IsNull(regionsOut) =>
          \A i \in 1..Len(rows) :
              Get(rows[i], "featureType") = RegionWord =>
                  ((i - 1) \in VertexIndices <=>
                      (~timeline.timelineEnabled \/ VisibleInWindow(rows[i], lower, upper)))

\* C4 as claimed: the selected window is [startYear, endYear] with null
\* unbounded on its side, whatever yearMin and yearMax are.
C4_NullIsUnbounded == ShownIffInWindow(timeline.startYear, timeline.endYear)

\* C4 as amended: a null startYear stands for yearMin and a null endYear for
\* yearMax; a side is unbounded only when its domain bound is null too.
C4_NullFallsBackToDomain ==
    LET lower == IF IsNull(timeline.startYear) THEN timeline.yearMin ELSE timeline.startYear
        upper == IF IsNull(timeline.endYear) THEN timeline.yearMax ELSE timeline.endYear
    IN  ShownIffInWindow(lower, upper)

\* C4 witness: startYear is null, yearMin is 1950, and a point row of 1900 with
\* valid coordinates is skipped by the timeline
C4_Witness ==
    /\ ~IsNull(pointsOut)
    /\ timeline.timelineEnabled /\ IsNull(timeline.startYear) /\ timeline.yearMin = <<1950>>
    /\ IsNull(timeline.endYear) /\ IsNull(timeline.yearMax)
    /\ Len(rows) = 1 /\ rows[1].featureType = PointWord
    /\ rows[1].year = <<"1", "9", "0", "0">> /\ rows[1].yearFrom = Blank
    /\ Val(pointsOut).points = <<>> /\ Val(pointsOut).skippedByTimeline = 1

-----------------------------------------------------------------------------
(* Spec: both derivations over files that mix feature types, valid and       *)
(* invalid coordinates, and years inside and outside the window.             *)

MaxRows == 2

LineWord == <<"l", "i", "n", "e">>

FeatureTypeCells == {Blank, <<" ", "P", "o", "i", "n", "t", " ">>, <<"R", "E", "G", "I", "O", "N">>, LineWord}

MixedRow(ft, lat, y) ==
    [featureType |-> ft, featureId |-> <<"A">>, lat |-> lat, lon |-> <<"2", "0">>, year |-> y]

MixedRows ==
    {MixedRow(ft, lat, y) :
        ft \in FeatureTypeCells, lat \in {<<"1", "0">>, <<"9", "1">>}, y \in {<<"1", "9", "0", "0">>, <<"1", "9", "6", "0">>}}

\* the timeline off, and on with the window starting in 1950
MixedTimelines ==
    {DEFAULT_STATE,
     [DEFAULT_STATE EXCEPT !.timelineEnabled = TRUE, !.startYear = <<1950>>]}

Init ==
    /\ InitDerive
    /\ rows \in SeqsUpTo(MixedRows, MaxRows)
    /\ \E m \in {<<"lat", "lon">>, <<NoField, "lon">>, <<"lat", NoField>>} :
          latField = m[1] /\ lonField = m[2]
    /\ featureTypeField \in {"featureType", NoField}
    /\ timeline \in MixedTimelines
    /\ timelineFields = [AllTimelineFields EXCEPT !.dateField = NoField,
                                                  !.dayOfYearField = NoField]
    /\ rangeFields = NoRangeFields

Next == DerivePoints \/ DeriveRegions

Spec == Init /\ [][Next]_vars

\* the routing of a row as C5 words it
FeatureTypeValue(row) == ToLowerCase(Trim(Get(row, featureTypeField)))
CandidatePoint(row) ==
    featureTypeField = NoField \/ FeatureTypeValue(row) \in {<<>>, PointWord}
RegionTyped(row) ==
    featureTypeField # NoField /\ FeatureTypeValue(row) = RegionWord

CandidateIndices == {i \in 1..Len(rows) : CandidatePoint(rows[i])}
RegionIndices == {i \in 1..Len(rows) : RegionTyped(rows[i])}

PointsAccounted ==
    Len(Val(pointsOut).points) + Val(pointsOut).skipped + Val(pointsOut).skippedByTimeline
RegionsAccounted ==
    Cardinality(VertexIndices) + Val(regionsOut).skipped + Val(regionsOut).skippedByTimeline

\* C5: a row is a candidate point iff no feature-type column was detected or
\* its trimmed, lower-cased value is empty or "point"; it takes part in region
\* derivation iff the column was detected and the value is "region".  No row
\* gives both a point and a vertex, rows of another type give neither and are
\* counted nowhere, and without a feature-type column region derivation returns
\* no polygons and zero counters.
C5_ExclusiveRouting ==
    /\ \A i \in 1..Len(rows) :
          /\ IsPointCandidate(rows[i], featureTypeField) <=> CandidatePoint(rows[i])
          /\ IsRegionRow(rows[i], featureTypeField) <=> RegionTyped(rows[i])
          /\ ~(CandidatePoint(rows[i]) /\ RegionTyped(rows[i]))
    /\ ~IsNull(pointsOut) =>
          /\ \A i \in 1..Len(rows) : PointEmitted(i - 1) => CandidatePoint(rows[i])
          /\ PointsAccounted \in {0, Cardinality(CandidateIndices)}
    /\ ~IsNull(regionsOut) =>
          /\ \A i \in 1..Len(rows) : (i - 1) \in VertexIndices => RegionTyped(rows[i])
          /\ RegionsAccounted \in {0, Cardinality(RegionIndices)}
          /\ featureTypeField = NoField =>
                /\ Val(regionsOut).polygons = <<>>
                /\ Val(regionsOut).skipped = 0 /\ Val(regionsOut).skippedByTimeline = 0
    /\ (~IsNull(pointsOut) /\ ~IsNull(regionsOut)) =>
          \A i \in 1..Len(rows) : ~(PointEmitted(i - 1) /\ (i - 1) \in VertexIndices)

\* C5 witness: of a " Point " row and a "line" row, the first gave the only
\* point, and nothing was counted or grouped for the second
C5_Witness ==
    /\ ~IsNull(pointsOut) /\ ~IsNull(regionsOut)
    /\ featureTypeField = "featureType" /\ Len(rows) = 2
    /\ rows[1].featureType = <<" ", "P", "o", "i", "n", "t", " ">> /\ rows[2].featureType = LineWord
    /\ Len(Val(pointsOut).points) = 1 /\ PointEmitted(0)
    /\ PointsAccounted = 1 /\ RegionsAccounted = 0 /\ VertexIndices = {}

CoordinatesValid(row) ==
    /\ isValidLat(parseFlexibleFloat(Get(row, latField)))
    /\ isValidLon(parseFlexibleFloat(Get(row, lonField)))

TimelineShows(row) ==
    ~timeline.timelineEnabled
        \/ VisibleInWindow(row, Coalesce(timeline.startYear, timeline.yearMin),
                           Coalesce(timeline.endYear, timeline.yearMax))

\* the three outcomes of the candidate rows
PointOutcomes ==
    /\ PointsAccounted = Cardinality(CandidateIndices)
    /\ Val(pointsOut).skipped
          = Cardinality({i \in CandidateIndices : ~CoordinatesValid(rows[i])})
    /\ Val(pointsOut).skippedByTimeline
          = Cardinality({i \in CandidateIndices :
                            CoordinatesValid(rows[i]) /\ ~TimelineShows(rows[i])})
    /\ \A i \in 1..Len(rows) :
          PointEmitted(i - 1) <=>
              (i \in CandidateIndices /\ CoordinatesValid(rows[i]) /\ TimelineShows(rows[i]))
    /\ ~timeline.timelineEnabled => Val(pointsOut).skippedByTimeline = 0

\* C6 as claimed: in point derivation every candidate row is a point, an
\* invalid coordinate or a timeline skip, so the three add up to the number of
\* candidate rows; an invalid coordinate is counted as invalid only, also when
\* the timeline would reject the row; with the timeline off skippedByTimeline is 0.
C6_ThreeOutcomes == ~IsNull(pointsOut) => PointOutcomes

\* C6 as amended: the same, when latField and lonField are both mapped;
\* otherwise no row is processed: no points, zero counters and a reason.
C6_ThreeOutcomesWhenMapped ==
    ~IsNull(pointsOut) =>
        IF latField # NoField /\ lonField # NoField
        THEN PointOutcomes /\ Val(pointsOut).reason = NullReason
        ELSE /\ Val(pointsOut).points = <<>>
             /\ Val(pointsOut).skipped = 0 /\ Val(pointsOut).skippedByTimeline = 0
             /\ Val(pointsOut).reason = MissingMapping

\* C6 witness: with the timeline on, a row with an invalid coordinate and a year
\* outside the window is counted as invalid, a valid row outside the window as
\* skipped by timeline
C6_Witness ==
    /\ ~IsNull(pointsOut) /\ timeline.timelineEnabled
    /\ latField = "lat" /\ lonField = "lon" /\ Len(rows) = 2
    /\ CandidatePoint(rows[1]) /\ ~CoordinatesValid(rows[1]) /\ rows[1].year = <<"1", "9", "0", "0">>
    /\ CandidatePoint(rows[2]) /\ CoordinatesValid(rows[2]) /\ rows[2].year = <<"1", "9", "0", "0">>
    /\ Val(pointsOut).skipped = 1 /\ Val(pointsOut).skippedByTimeline = 1
    /\ Val(pointsOut).points = <<>>

-----------------------------------------------------------------------------
(* SpecRegionRows: region derivation over region rows that vary featureId,   *)
(* part, the longitude and the year; two rows lack a column.                 *)

MaxRegionRows == 2

RegionRow(fid, part, lon, y) ==
    [featureType |-> RegionWord, featureId |-> fid, part |-> part,
     lat |-> <<"1", "0">>, lon |-> lon, year |-> y]

RegionRows ==
    {RegionRow(fid, part, <<"2", "0">>, <<"1", "9", "6", "0">>) :
        fid \in {<<"A">>, <<"B">>}, part \in {Blank, <<"1">>}}
    \cup {RegionRow(<<"A">>, <<"0">>, <<"2", "0">>, <<"1", "9", "6", "0">>),
          RegionRow(<<"A">>, Blank, <<"1", "8", "1">>, <<"1", "9", "6", "0">>),
          RegionRow(<<"A">>, Blank, <<"2", "0">>, <<"1", "9", "0", "0">>),
          RegionRow(<<"A">>, Blank, <<"1", "8", "1">>, <<"1", "9", "0", "0">>),
          RegionRow(<<" ">>, Blank, <<"2", "0">>, <<"1", "9", "6", "0">>),
          RegionRow(<<" ">>, Blank, <<"2", "0">>, <<"1", "9", "0", "0">>),
          [featureType |-> RegionWord, featureId |-> <<" ", "A">>,
           lat |-> <<"1", "0">>, lon |-> <<"2", "0">>, year |-> <<"1", "9", "6", "0">>],
          [featureType |-> RegionWord, part |-> <<"1">>,
           lat |-> <<"1", "0">>, lon |-> <<"2", "0">>, year |-> <<"1", "9", "6", "0">>]}

InitRegionRows ==
    /\ InitDerive
    /\ rows \in SeqsUpTo(RegionRows, MaxRegionRows)
    /\ latField \in {"lat", NoField} /\ lonField = "lon"
    /\ featureTypeField = "featureType"
    /\ timeline \in MixedTimelines
    /\ timelineFields = [AllTimelineFields EXCEPT !.dateField = NoField,
                                                  !.dayOfYearField = NoField]
    /\ rangeFields = NoRangeFields

SpecRegionRows == InitRegionRows /\ [][NextDerive]_vars

\* where the vertices of row i (from 0) are: <<group, part, position>>
VertexPlaces(i) ==
    {t \in UNION {UNION {{<<g, q, k>> : k \in 1..Len(Val(groupsOut)[g].parts[q].rows)} :
                            q \in 1..Len(Val(groupsOut)[g].parts)} :
                     g \in 1..Len(Val(groupsOut))} :
        Val(groupsOut)[t[1]].parts[t[2]].rows[t[3]].index = i}

FeatureIdOf(row) == Trim(Get(row, "featureId"))
PartOf(row) == IF Trim(Get(row, "part")) = <<>> THEN <<"0">> ELSE Trim(Get(row, "part"))

\* the three outcomes of the rows typed "region"
RegionOutcomes ==
    /\ RegionsAccounted = Cardinality(RegionIndices)
    /\ Val(regionsOut).skippedByTimeline
          = Cardinality({i \in RegionIndices : ~TimelineShows(rows[i])})
    /\ Val(regionsOut).skipped
          = Cardinality({i \in RegionIndices :
                            /\ TimelineShows(rows[i])
                            /\ FeatureIdOf(rows[i]) = <<>> \/ ~CoordinatesValid(rows[i])})
    /\ \A i \in RegionIndices :
          IF TimelineShows(rows[i]) /\ FeatureIdOf(rows[i]) # <<>> /\ CoordinatesValid(rows[i])
          THEN /\ Cardinality(VertexPlaces(i - 1)) = 1
               /\ \A t \in VertexPlaces(i - 1) :
                     /\ Val(groupsOut)[t[1]].key = FeatureIdOf(rows[i])
                     /\ Val(groupsOut)[t[1]].parts[t[2]].key = PartOf(rows[i])
          ELSE VertexPlaces(i - 1) = {}
    \* a (featureId, part) pair names one group only
    /\ \A g, h \in 1..Len(Val(groupsOut)) :
          Val(groupsOut)[g].key = Val(groupsOut)[h].key => g = h
    /\ \A g \in 1..Len(Val(groupsOut)) :
          \A q, r \in 1..Len(Val(groupsOut)[g].parts) :
              Val(groupsOut)[g].parts[q].key = Val(groupsOut)[g].parts[r].key => q = r

\* C7 as claimed: every row typed "region" is counted in skippedByTimeline, or
\* counted in skipped (blank featureId, bad coordinate), or is one vertex of
\* exactly one (featureId, part) group, a blank or missing part being "0".
C7_RegionOutcomes == ~IsNull(regionsOut) => RegionOutcomes

\* C7 as amended: the same, when latField and lonField are both mapped;
\* otherwise no row is processed: no groups, zero counters and a reason.
C7_RegionOutcomesWhenMapped ==
    ~IsNull(regionsOut) =>
        IF latField # NoField /\ lonField # NoField
        THEN RegionOutcomes /\ Val(regionsOut).reason = NullReason
        ELSE /\ Val(groupsOut) = <<>> /\ Val(regionsOut).polygons = <<>>
             /\ Val(regionsOut).skipped = 0 /\ Val(regionsOut).skippedByTimeline = 0
             /\ Val(regionsOut).reason = MissingMapping

\* C7 witness: a row without a part column and a row of part "0" are the two
\* vertices of the one group ("A", "0")
C7_Witness ==
    /\ ~IsNull(regionsOut) /\ latField = "lat" /\ Len(rows) = 2
    /\ "part" \notin DOMAIN rows[1] /\ Get(rows[2], "part") = <<"0">>
    /\ Len(Val(groupsOut)) = 1 /\ Val(groupsOut)[1].key = <<"A">>
    /\ Len(Val(groupsOut)[1].parts) = 1 /\ Val(groupsOut)[1].parts[1].key = <<"0">>
    /\ Len(Val(groupsOut)[1].parts[1].rows) = 2
    /\ Val(regionsOut).skipped = 0 /\ Val(regionsOut).skippedByTimeline = 0

\* the three outcomes side by side: with the timeline on, a row outside the
\* window is skipped by timeline and a row with a blank featureId is skipped
C7_SkipCounters ==
    (/\ ~IsNull(regionsOut) /\ latField = "lat" /\ timeline.timelineEnabled
     /\ Len(rows) = 2
     /\ rows[1].year = <<"1", "9", "0", "0">>
     /\ rows[2].year = <<"1", "9", "6", "0">> /\ FeatureIdOf(rows[2]) = <<>>)
        => (/\ Val(regionsOut).skippedByTimeline = 1 /\ Val(regionsOut).skipped = 1
            /\ Val(groupsOut) = <<>>)

-----------------------------------------------------------------------------
(* SpecCoords: both derivations over rows whose coordinate cells lie on,     *)
(* inside and outside the bounds, or are no finite number.                   *)

MaxCoordRows == 4

CoordRow(ft, pair) ==
    [featureType |-> ft, featureId |-> <<"A">>, lat |-> pair[1], lon |-> pair[2]]

\* <<lat, lon>> cells that are valid coordinates: 90 and 180, -90 and -180
GoodPairs ==
    {<<<<"9", "e", "1">>, <<"1", "8", "0">>>>, <<<<"-", "9", "0">>, <<"-", "1", " ", "8", "0", ",", "0">>>>}

\* <<lat, lon>> cells with a value out of range or not a finite number
BadPairs ==
    {<<<<"9", "0", ",", "5">>, <<"2", "0">>>>, <<<<"1", "0">>, <<"-", "1", "8", "1">>>>, <<<<"x">>, <<"2", "0">>>>,
     <<<<"-", "9", "1">>, <<"2", "0">>>>, <<<<"1", "0">>, <<"1", "8", "0", ",", "1">>>>, <<<<"I", "n", "f", "i", "n", "i", "t", "y">>, <<"2", "0">>>>}

CoordRows ==
    {CoordRow(PointWord, pair) :
        pair \in {<<<<"9", "e", "1">>, <<"1", "8", "0">>>>, <<<<"9", "0", ",", "5">>, <<"2", "0">>>>,
                  <<<<"1", "0">>, <<"-", "1", "8", "1">>>>, <<<<"x">>, <<"2", "0">>>>}}
    \cup {CoordRow(RegionWord, pair) :
        pair \in {<<<<"-", "9", "0">>, <<"-", "1", " ", "8", "0", ",", "0">>>>, <<<<"-", "9", "1">>, <<"2", "0">>>>,
                  <<<<"1", "0">>, <<"1", "8", "0", ",", "1">>>>, <<<<"I", "n", "f", "i", "n", "i", "t", "y">>, <<"2", "0">>>>}}

InitCoords ==
    /\ InitDerive
    /\ rows \in SeqsUpTo(CoordRows, MaxCoordRows)
    /\ latField = "lat" /\ lonField = "lon" /\ featureTypeField = "featureType"
    /\ timeline = DEFAULT_STATE
    /\ timelineFields = NoTimelineFields /\ rangeFields = NoRangeFields

SpecCoords == InitCoords /\ [][NextDerive]_vars

\* a finite number of the closed interval [lo, hi]
InClosedInterval(x, lo, hi) ==
    ~x.nan /\ lo * Pow10(x.dec) <= x.mant /\ x.mant <= hi * Pow10(x.dec)

PairOf(row) == <<Get(row, "lat"), Get(row, "lon")>>

\* C8: every emitted point has its lat in [-90, 90] and its lon in [-180, 180],
\* and so has every vertex of every emitted polygon; a row whose cell is out of
\* range or is no finite number gives no point and no vertex.
C8_ValidCoordinates ==
    /\ ~IsNull(pointsOut) =>
          \A k \in 1..Len(Val(pointsOut).points) :
              /\ InClosedInterval(Val(pointsOut).points[k].lat, -90, 90)
              /\ InClosedInterval(Val(pointsOut).points[k].lon, -180, 180)
              /\ PairOf(Val(pointsOut).points[k].row) \in GoodPairs
    /\ ~IsNull(regionsOut) =>
          /\ \A k \in 1..Len(Val(regionsOut).polygons) :
                \A j \in 1..Len(Val(regionsOut).polygons[k].coordinates) :
                    /\ InClosedInterval(Val(regionsOut).polygons[k].coordinates[j][1], -90, 90)
                    /\ InClosedInterval(Val(regionsOut).polygons[k].coordinates[j][2], -180, 180)
          /\ \A it \in VertexItems(Val(groupsOut)) : PairOf(it.row) \in GoodPairs

\* C8 witness: a point on the upper bounds (90, written "9e1", and 180) and a
\* polygon with a vertex on the lower bounds (-90 and -180, written "-1 80,0")
\* were emitted
C8_Witness ==
    /\ ~IsNull(pointsOut) /\ ~IsNull(regionsOut)
    /\ \E k \in 1..Len(Val(pointsOut).points) :
          /\ Val(pointsOut).points[k].lat = Num(90)
          /\ Val(pointsOut).points[k].lon = Num(180)
    /\ \E k \in 1..Len(Val(regionsOut).polygons) :
          \E j \in 1..Len(Val(regionsOut).polygons[k].coordinates) :
              Val(regionsOut).polygons[k].coordinates[j] = <<Num(-90), Num(-180)>>

\* rows with bad cells are counted as skipped, whatever their type
C8_BadRowsSkipped ==
    /\ ~IsNull(pointsOut) =>
          Val(pointsOut).skipped
             = Cardinality({i \in 1..Len(rows) :
                   rows[i].featureType = PointWord /\ PairOf(rows[i]) \in BadPairs})
    /\ ~IsNull(regionsOut) =>
          Val(regionsOut).skipped
             = Cardinality({i \in 1..Len(rows) :
                   rows[i].featureType = RegionWord /\ PairOf(rows[i]) \in BadPairs})

-----------------------------------------------------------------------------
(* SpecPolygons: region derivation over the rows of one featureId, in two    *)
(* parts, on two places, with and without an order value.                    *)

MaxPolygonRows == 4

PolygonRow(part, pair, order) ==
    [featureType |-> RegionWord, featureId |-> <<"A">>, part |-> part,
     lat |-> pair[1], lon |-> pair[2], order |-> order]

PlaceP == <<<<"0">>, <<"0">>>>
PlaceQ == <<<<"0">>, <<"1">>>>
NoPlace == <<<<"9", "1">>, <<"0">>>>
MinusOne == <<"-", "1">>

PolygonRows ==
    {PolygonRow(Blank, PlaceP, Blank), PolygonRow(Blank, PlaceP, MinusOne),
     PolygonRow(Blank, PlaceQ, Blank), PolygonRow(Blank, NoPlace, Blank),
     PolygonRow(<<"1">>, PlaceP, Blank), PolygonRow(<<"1">>, PlaceQ, Blank)}

InitPolygons ==
    /\ InitDerive
    /\ rows \in SeqsUpTo(PolygonRows, MaxPolygonRows)
    /\ latField = "lat" /\ lonField = "lon" /\ featureTypeField = "featureType"
    /\ timeline = DEFAULT_STATE
    /\ timelineFields = NoTimelineFields /\ rangeFields = NoRangeFields

SpecPolygons == InitPolygons /\ [][NextDerive]_vars

\* the rows accepted as vertices of the part (from 1)
Accepted(part) ==
    {i \in 1..Len(rows) : PartOf(rows[i]) = part /\ PairOf(rows[i]) \in {PlaceP, PlaceQ}}

\* the order value of row i, or its index from 0
OrderKeyOf(i) == IF Get(rows[i], "order") = MinusOne THEN -1 ELSE i - 1

\* the place of row i among the rows S in ascending order, ties by row order
Rank(S, i) ==
    1 + Cardinality({j \in S : \/ OrderKeyOf(j) < OrderKeyOf(i)
                               \/ OrderKeyOf(j) = OrderKeyOf(i) /\ j < i})

PlaceOf(row) == IF PairOf(row) = PlaceP THEN <<Num(0), Num(0)>> ELSE <<Num(0), Num(1)>>

\* the ordered vertices of the part
OrderedVertices(part) ==
    [k \in 1..Cardinality(Accepted(part)) |->
        PlaceOf(rows[CHOOSE i \in Accepted(part) : Rank(Accepted(part), i) = k])]

PolygonsOf(part) ==
    {k \in 1..Len(Val(regionsOut).polygons) :
        /\ Val(regionsOut).polygons[k].featureId = <<"A">>
        /\ Val(regionsOut).polygons[k].part = part}

\* C9: the first and the last coordinate of every emitted polygon are equal;
\* the coordinates are the ordered vertices of the part, followed by one copy
\* of the first when the vertices are open and by nothing when they are closed.
C9_ClosedRing ==
    ~IsNull(regionsOut) =>
        \A k \in 1..Len(Val(regionsOut).polygons) :
            LET c == Val(regionsOut).polygons[k].coordinates
                v == OrderedVertices(Val(regionsOut).polygons[k].part)
            IN  /\ c[1] = c[Len(c)]
                /\ IF v[1] # v[Len(v)] THEN c = Append(v, v[1]) ELSE c = v

\* C9 witness: three open vertices gave a polygon of four coordinates
C9_Witness ==
    /\ ~IsNull(regionsOut) /\ Len(rows) = 3 /\ Cardinality(Accepted(<<"0">>)) = 3
    /\ OrderedVertices(<<"0">>)[1] # OrderedVertices(<<"0">>)[3]
    /\ Len(Val(regionsOut).polygons) = 1
    /\ Len(Val(regionsOut).polygons[1].coordinates) = 4

\* three vertices that an order value closes (Q, P, then P with order -1) give
\* a polygon of three coordinates
C9_ClosedStaysAsIs ==
    (/\ ~IsNull(regionsOut) /\ Len(rows) = 3 /\ Cardinality(Accepted(<<"0">>)) = 3
     /\ PairOf(rows[1]) = PlaceQ
     /\ PairOf(rows[2]) = PlaceP /\ Get(rows[2], "order") = Blank
     /\ Get(rows[3], "order") = MinusOne)
        => (/\ Len(Val(regionsOut).polygons) = 1
            /\ Val(regionsOut).polygons[1].coordinates
                  = <<PlaceOf(rows[3]), PlaceOf(rows[1]), PlaceOf(rows[2])>>)

\* C10: a (featureId, part) group gives exactly one polygon when it holds at
\* least 3 accepted vertex rows and none when it holds fewer, each part of a
\* featureId on its own.
C10_OnePolygonPerGroup ==
    ~IsNull(regionsOut) =>
        /\ \A part \in {<<"0">>, <<"1">>} :
              Cardinality(PolygonsOf(part))
                 = IF Cardinality(Accepted(part)) >= 3 THEN 1 ELSE 0
        /\ \A k \in 1..Len(Val(regionsOut).polygons) :
              k \in PolygonsOf(<<"0">>) \cup PolygonsOf(<<"1">>)

\* C10 witness: part "0" holds three vertices and part "1" one; the only
\* polygon is that of part "0"
C10_Witness ==
    /\ ~IsNull(regionsOut)
    /\ Cardinality(Accepted(<<"0">>)) = 3 /\ Cardinality(Accepted(<<"1">>)) = 1
    /\ Len(Val(regionsOut).polygons) = 1
    /\ Val(regionsOut).polygons[1].id = <<"A", ":", "0">>

-----------------------------------------------------------------------------
(* SpecOrder: region derivation over the rows of one part, on two places,    *)
(* with order cells that parse, that do not, and that tie with an index.     *)

MaxOrderRows == 3

\* order cells, and ten times the number each parses to (<<>>: none)
OrderCells == {Blank, <<"x">>, <<"1">>, <<"0", ".", "5">>, MinusOne}

TenTimesOrder(cell) ==
    CASE cell = <<"1">> -> <<10>>
      [] cell = <<"0", ".", "5">> -> <<5>>
      [] cell = MinusOne -> <<-10>>
      [] OTHER -> <<>>

OrderRows ==
    {PolygonRow(Blank, pair, order) : pair \in {PlaceP, PlaceQ}, order \in OrderCells}

InitOrder ==
    /\ InitDerive
    /\ rows \in SeqsUpTo(OrderRows, MaxOrderRows)
    /\ latField = "lat" /\ lonField = "lon" /\ featureTypeField = "featureType"
    /\ timeline = DEFAULT_STATE
    /\ timelineFields = NoTimelineFields /\ rangeFields = NoRangeFields

SpecOrder == InitOrder /\ [][NextDerive]_vars

\* ten times the key of row i (from 1): its order value, else its index from 0
TenTimesKey(i) ==
    IF TenTimesOrder(Get(rows[i], "order")) # <<>>
    THEN TenTimesOrder(Get(rows[i], "order"))[1]
    ELSE 10 * (i - 1)

\* row i comes before row j: a smaller key, or an equal key and earlier in the file
Before(i, j) ==
    \/ TenTimesKey(i) < TenTimesKey(j)
    \/ TenTimesKey(i) = TenTimesKey(j) /\ i < j

\* the position of row i among all rows
PositionOf(i) == 1 + Cardinality({j \in 1..Len(rows) : Before(j, i)})

\* C11: within a part the vertices are in ascending order of the key (the
\* order value when it parses, else the row's index), rows of equal key in
\* file order, and the polygon's coordinates follow that order.
C11_VertexOrder ==
    ~IsNull(regionsOut) =>
        \A k \in 1..Len(Val(regionsOut).polygons) :
            \A i \in 1..Len(rows) :
                Val(regionsOut).polygons[k].coordinates[PositionOf(i)] = PlaceOf(rows[i])

\* C11 witness: keys 0.5, 1 (an index) and -1 put the third row first
C11_Witness ==
    /\ ~IsNull(regionsOut) /\ Len(rows) = 3
    /\ Get(rows[1], "order") = <<"0", ".", "5">> /\ PairOf(rows[1]) = PlaceP
    /\ Get(rows[2], "order") = <<"x">> /\ PairOf(rows[2]) = PlaceP
    /\ Get(rows[3], "order") = MinusOne /\ PairOf(rows[3]) = PlaceQ
    /\ Len(Val(regionsOut).polygons) = 1
    /\ Val(regionsOut).polygons[1].coordinates
          = <<PlaceOf(rows[3]), PlaceOf(rows[1]), PlaceOf(rows[2]), PlaceOf(rows[3])>>

\* an order value equal to an index: row 2 (index 1) and row 3 (order 1) tie
\* and keep the file order
C11_TieKeepsFileOrder ==
    (/\ ~IsNull(regionsOut) /\ Len(rows) = 3
     /\ Get(rows[1], "order") = Blank
     /\ Get(rows[2], "order") = Blank /\ PairOf(rows[2]) = PlaceQ
     /\ Get(rows[3], "order") = <<"1">> /\ PairOf(rows[3]) = PlaceP)
        => Val(regionsOut).polygons[1].coordinates[2] = PlaceOf(rows[2])

-----------------------------------------------------------------------------
(* SpecStyle: region derivation over the rows of one part whose style cells  *)
(* are blank, set, or no number, in a file order the order cells change.     *)

MaxStyleRows == 3

StyleRow(color, weight, opacity, fillColor, fillOpacity, order) ==
    [featureType |-> RegionWord, featureId |-> <<"A">>, part |-> Blank,
     lat |-> <<"0">>, lon |-> <<"0">>, order |-> order,
     color |-> color, weight |-> weight, opacity |-> opacity,
     fillColor |-> fillColor, fillOpacity |-> fillOpacity]

StyleRows ==
    {StyleRow(Blank, Blank, Blank, Blank, Blank, Blank),
     StyleRow(<<"r">>, Blank, Blank, Blank, Blank, Blank),
     StyleRow(<<"b">>, <<"x">>, Blank, Blank, Blank, MinusOne),
     StyleRow(Blank, Blank, Blank, <<"g">>, Blank, Blank),
     StyleRow(Blank, <<"3">>, <<"0", ".", "5">>, Blank, <<"0">>, Blank),
     StyleRow(Blank, <<"0">>, Blank, Blank, Blank, MinusOne),
     StyleRow(<<" ">>, Blank, <<"x">>, <<" ", "g">>, Blank, Blank),
     StyleRow(<<"r">>, Blank, Blank, <<"g">>, Blank, Blank)}

InitStyle ==
    /\ InitDerive
    /\ rows \in SeqsUpTo(StyleRows, MaxStyleRows)
    /\ latField = "lat" /\ lonField = "lon" /\ featureTypeField = "featureType"
    /\ timeline = DEFAULT_STATE
    /\ timelineFields = NoTimelineFields /\ rangeFields = NoRangeFields

SpecStyle == InitStyle /\ [][NextDerive]_vars

\* what a colour cell supplies: its text, or nothing (<<>>)
SuppliedText(cell) ==
    CASE cell \in {<<"r">>, <<"b">>, <<"g">>} -> <<cell>>
      [] cell = <<" ", "g">> -> <<<<"g">>>>
      [] OTHER -> <<>>

\* what a numeric cell supplies: its number, or nothing (<<>>)
SuppliedNumber(cell) ==
    CASE cell = <<"3">> -> <<Num(3)>>
      [] cell = <<"0">> -> <<Num(0)>>
      [] cell = <<"0", ".", "5">> -> <<[nan |-> FALSE, mant |-> 5, dec |-> 1]>>
      [] OTHER -> <<>>

SuppliedBy(row, key) ==
    IF key \in {"color", "fillColor"} THEN SuppliedText(Get(row, key))
    ELSE SuppliedNumber(Get(row, key))

AllRows == 1..Len(rows)

\* what the rows supply for the key: the value of the first supplying row in
\* sorted vertex order, or nothing (<<>>)
FirstSupplied(key) ==
    LET S == {i \in AllRows : SuppliedBy(rows[i], key) # <<>>}
    IN  IF S = {} THEN <<>>
        ELSE SuppliedBy(rows[CHOOSE i \in S : \A j \in S : Rank(AllRows, i) <= Rank(AllRows, j)],
                        key)

StyleDefault(key) ==
    CASE key = "color" -> <<"#", "3", "3", "8", "8", "f", "f">>
      [] key = "fillColor" -> <<"#", "3", "3", "8", "8", "f", "f">>
      [] key = "weight" -> Num(2)
      [] key = "opacity" -> Num(1)
      [] key = "fillOpacity" -> [nan |-> FALSE, mant |-> 25, dec |-> 2]

FirstOrDefault(key) ==
    IF FirstSupplied(key) # <<>> THEN FirstSupplied(key)[1] ELSE StyleDefault(key)

StyleKeys == {"color", "weight", "opacity", "fillColor", "fillOpacity"}

\* C12 as claimed: each of the five style properties of a polygon is the first
\* non-empty value of the part's rows in sorted vertex order (no number counts
\* as empty for weight, opacity, fillOpacity), or its default when no row
\* supplies it.
C12_FirstNonEmptyOrDefault ==
    ~IsNull(regionsOut) =>
        \A k \in 1..Len(Val(regionsOut).polygons) :
            \A key \in StyleKeys :
                Val(regionsOut).polygons[k].style[key] = FirstOrDefault(key)

\* C12 as amended: the same for every property a row supplies and for weight,
\* opacity and fillOpacity; color and fillColor take their default when no row
\* supplies either of the two.
C12_FirstNonEmpty ==
    ~IsNull(regionsOut) =>
        \A k \in 1..Len(Val(regionsOut).polygons) :
            \A key \in StyleKeys :
                (\/ FirstSupplied(key) # <<>>
                 \/ key \in {"weight", "opacity", "fillOpacity"}
                 \/ FirstSupplied("color") = <<>> /\ FirstSupplied("fillColor") = <<>>)
                    => Val(regionsOut).polygons[k].style[key] = FirstOrDefault(key)

\* C12 witness: color b of the third row, sorted first, wins over color r of
\* the first; its weight x is passed over for weight 3 of the second row
C12_Witness ==
    /\ ~IsNull(regionsOut) /\ Len(rows) = 3
    /\ rows[1] = StyleRow(<<"r">>, Blank, Blank, Blank, Blank, Blank)
    /\ rows[2] = StyleRow(Blank, <<"3">>, <<"0", ".", "5">>, Blank, <<"0">>, Blank)
    /\ rows[3] = StyleRow(<<"b">>, <<"x">>, Blank, Blank, Blank, MinusOne)
    /\ Len(Val(regionsOut).polygons) = 1
    /\ Val(regionsOut).polygons[1].style.color = <<"b">>
    /\ Val(regionsOut).polygons[1].style.weight = Num(3)
    /\ Val(regionsOut).polygons[1].style.fillOpacity = Num(0)

\* C13: cross-fill of color and fillColor: only color supplied, fillColor is
\* that color; only fillColor supplied, color is that fillColor; both supplied,
\* each keeps its own; neither supplied, both are the default.
C13_CrossFill ==
    ~IsNull(regionsOut) =>
        \A k \in 1..Len(Val(regionsOut).polygons) :
            LET style == Val(regionsOut).polygons[k].style
                color == FirstSupplied("color")
                fill == FirstSupplied("fillColor")
            IN  /\ (color # <<>> /\ fill = <<>>) =>
                      style.color = color[1] /\ style.fillColor = color[1]
                /\ (color = <<>> /\ fill # <<>>) =>
                      style.color = fill[1] /\ style.fillColor = fill[1]
                /\ (color # <<>> /\ fill # <<>>) =>
                      style.color = color[1] /\ style.fillColor = fill[1]
                /\ (color = <<>> /\ fill = <<>>) =>
                      /\ style.color = StyleDefault("color")
                      /\ style.fillColor = StyleDefault("fillColor")

\* C13 witness: only fillColor g was supplied, and color is g too
C13_Witness ==
    /\ ~IsNull(regionsOut) /\ Len(rows) = 3
    /\ FirstSupplied("color") = <<>> /\ FirstSupplied("fillColor") = <<<<"g">>>>
    /\ Len(Val(regionsOut).polygons) = 1
    /\ Val(regionsOut).polygons[1].style.color = <<"g">>
    /\ Val(regionsOut).polygons[1].style.fillColor = <<"g">>

-----------------------------------------------------------------------------
(* SpecPopup: region derivation over named rows of one featureId, in two     *)
(* parts, some sorted to the front, one with a bad coordinate.               *)

MaxPopupRows == 4

PopupRow(part, name, pair, order) ==
    [featureType |-> RegionWord, featureId |-> <<"A">>, part |-> part, name |-> name,
     lat |-> pair[1], lon |-> pair[2], order |-> order]

PopupRows ==
    {PopupRow(Blank, <<"a">>, PlaceP, Blank), PopupRow(Blank, <<"b">>, PlaceP, MinusOne),
     PopupRow(<<"1">>, <<"c">>, PlaceP, Blank), PopupRow(<<"1">>, <<"d">>, PlaceP, MinusOne),
     PopupRow(<<"1">>, <<"e">>, NoPlace, Blank)}

InitPopup ==
    /\ InitDerive
    /\ rows \in SeqsUpTo(PopupRows, MaxPopupRows)
    /\ latField = "lat" /\ lonField = "lon" /\ featureTypeField = "featureType"
    /\ timeline = DEFAULT_STATE
    /\ timelineFields = NoTimelineFields /\ rangeFields = NoRangeFields

SpecPopup == InitPopup /\ [][NextDerive]_vars

\* the rows recorded for the featureId: those that became vertices
Recorded == {i \in 1..Len(rows) : PairOf(rows[i]) # NoPlace}

FirstOf(S) == CHOOSE i \in S : \A j \in S : i <= j

\* the featureId's first-seen part
FirstSeenPart == PartOf(rows[FirstOf(Recorded)])

\* C14: the row of every polygon of the featureId is the first row, in file
\* order, recorded in the featureId's first-seen part (such a row exists for
\* every polygon, so the first vertex's row never stands in for it).
C14_PopupRow ==
    ~IsNull(regionsOut) =>
        \A k \in 1..Len(Val(regionsOut).polygons) :
            Val(regionsOut).polygons[k].row
                = rows[FirstOf({i \in Recorded : PartOf(rows[i]) = FirstSeenPart})]

\* C14 witness: the polygon of part "1" carries row a of part "0", the
\* first-seen part, which gave no polygon; the polygon's first vertex is row d
C14_Witness ==
    /\ ~IsNull(regionsOut) /\ Len(rows) = 4
    /\ rows[1].name = <<"a">> /\ rows[2].name = <<"c">>
    /\ rows[3].name = <<"c">> /\ rows[4].name = <<"d">>
    /\ Len(Val(regionsOut).polygons) = 1
    /\ Val(regionsOut).polygons[1].part = <<"1">>
    /\ Val(regionsOut).polygons[1].row = rows[1]

\* every group holds a popupRow once a row was recorded for it
C14_PopupAlwaysRecorded ==
    ~IsNull(groupsOut) =>
        \A g \in 1..Len(Val(groupsOut)) : ~IsNull(Val(groupsOut)[g].popupRow)


-----------------------------------------------------------------------------
(* csvParse.js *)
(* Papa.parse belongs to a library outside the repository, so the text is    *)
(* kept line by line, each line together with what Papa.parse makes of it:   *)
(*   kind "blank"   the line is empty or white space only,                   *)
(*   kind "empty"   a line that is not blank and that skipEmptyLines drops   *)
(*                  (the two characters "" are one),                         *)
(*   kind "nonrow"  result.data holds an entry for it that is not an array,  *)
(*   kind "cells"   result.data holds the array `cells` for it.              *)
(* papaErrors is the length of result.errors.  A message of parseErrors is   *)
(* [type, line, n, m]: the sentence it is and the numbers the sentence has.  *)

MAX_PREVIEW_ROWS == 25
MAX_ERRORS == 200

Line(kind, cells) == [kind |-> kind, cells |-> cells]
Msg(type, line, n, m) == [type |-> type, line |-> line, n |-> n, m |-> m]

FileIsEmpty == Msg("File is empty (or only blank lines).", 0, 0, 0)
ParserError(k) == Msg("Parser: message (row)", k, 0, 0)
NoRowsDetected == Msg("No rows detected.", 0, 0, 0)
NoHeaderRowDetected == Msg("No header row detected.", 0, 0, 0)
HeaderRowIsEmpty == Msg("Header row is empty.", 0, 0, 0)
SkippedNonRow(line) == Msg("Skipped non-row at line.", line, 0, 0)
Truncated(line, had, kept) == Msg("Line: had values; truncated to.", line, had, kept)
NoUsableDataRows == Msg("No usable data rows were parsed.", 0, 0, 0)
SkippedMalformed(skipped) == Msg("Skipped malformed row(s).", 0, skipped, 0)

\* a non-negative integer in a template literal
RECURSIVE NumberToString(_)
NumberToString(n) ==
    IF n < 10 THEN <<(<<"0", "1", "2", "3", "4", "5", "6", "7", "8", "9">>)[n + 1]>>
    ELSE NumberToString(n \div 10) \o NumberToString(n % 10)

pushErr_noLimit(list, msg) == Append(list, msg)

pushErr(list, msg) == IF Len(list) < MAX_ERRORS THEN Append(list, msg) ELSE list

\* lines 36-40: the text without its blank lines; `at` remembers the line's
\* number in the file, which the code does not keep
Cleaned(text) ==
    LET numbered == [i \in 1..Len(text) |->
                        [kind |-> text[i].kind, cells |-> text[i].cells, at |-> i]]
        NotBlank(l) == l.kind # "blank"
    IN  SelectSeq(numbered, NotBlank)

\* lines 62-76: result.data of Papa.parse(cleaned, ...) with skipEmptyLines
PapaData(cleaned) ==
    LET Kept(l) == l.kind \in {"nonrow", "cells"}
    IN  SelectSeq(cleaned, Kept)

\* lines 70-74: result.errors.slice(0, MAX_ERRORS), one message each
ParserMessages(nErrors) == [k \in 1..Min(nErrors, MAX_ERRORS) |-> ParserError(k)]

IsArray(entry) == entry.kind = "cells"

\* `row.some(v => String(v ?? "").trim() !== "")`
SomeNonEmpty(cells) == \E c \in 1..Len(cells) : Trim(cells[c]) # <<>>

\* the index in data (from 1) of the row firstNonEmptyArrayRow returns, 0 for null
RECURSIVE firstNonEmptyArrayRow_from(_, _)
firstNonEmptyArrayRow_from(data, j) ==
    IF j > Len(data) THEN 0
    ELSE IF IsArray(data[j]) /\ SomeNonEmpty(data[j].cells) THEN j
    ELSE firstNonEmptyArrayRow_from(data, j + 1)

firstNonEmptyArrayRow(data) == firstNonEmptyArrayRow_from(data, 1)

\* one turn of normalizeHeaders' loop; acc = [seen, out], seen a Map of counts
HeaderStep(acc, rawName) ==
    LET Put(base, count) ==
            [seen |-> IF MapHas(acc.seen, base)
                      THEN [acc.seen EXCEPT ![MapIndex(acc.seen, base)].count = count]
                      ELSE Append(acc.seen, [key |-> base, count |-> count]),
             out |-> Append(acc.out, IF count = 1 THEN base
                                     ELSE base \o <<"_">> \o NumberToString(count))]
        Count(base) ==
            Put(base, (IF MapHas(acc.seen, base)
                       THEN acc.seen[MapIndex(acc.seen, base)].count ELSE 0) + 1)
        Name(base) == IF base = <<>> THEN acc ELSE Count(base)
    IN  Name(Trim(rawName))

RECURSIVE HeaderLoop(_, _, _)
HeaderLoop(raw, i, acc) ==
    IF i > Len(raw) THEN acc ELSE HeaderLoop(raw, i + 1, HeaderStep(acc, raw[i]))

normalizeHeaders(raw) == HeaderLoop(raw, 1, [seen |-> <<>>, out |-> <<>>]).out

\* lines 147-150
normalizedValue(rowArr, c) == IF c <= Len(rowArr) THEN Trim(rowArr[c]) ELSE <<>>

\* lines 161-164: a later assignment to the same key replaces the earlier one
RowObject(hs, rowArr) ==
    [key \in {hs[c] : c \in 1..Len(hs)} |->
        normalizedValue(rowArr, CHOOSE c \in 1..Len(hs) :
                                    /\ hs[c] = key
                                    /\ \A d \in 1..Len(hs) : hs[d] = key => d <= c)]

BodyStep_keepEmptyRows(acc, entry, line, hs) ==
    IF ~IsArray(entry)
    THEN [rows |-> acc.rows, skipped |-> acc.skipped + 1,
          parseErrors |-> pushErr(acc.parseErrors, SkippedNonRow(line))]
    ELSE [rows |-> Append(acc.rows, RowObject(hs, entry.cells)),
          skipped |-> acc.skipped,
          parseErrors |-> IF Len(entry.cells) > Len(hs)
                          THEN pushErr(acc.parseErrors,
                                       Truncated(line, Len(entry.cells), Len(hs)))
                          ELSE acc.parseErrors]

\* one turn of the loop of lines 131-167; acc = [rows, skipped, parseErrors]
BodyStep(acc, entry, line, hs) ==
    IF ~IsArray(entry)
    THEN [rows |-> acc.rows, skipped |-> acc.skipped + 1,
          parseErrors |-> pushErr(acc.parseErrors, SkippedNonRow(line))]
    ELSE IF ~SomeNonEmpty(entry.cells) THEN acc
    ELSE [rows |-> Append(acc.rows, RowObject(hs, entry.cells)),
          skipped |-> acc.skipped,
          parseErrors |-> IF Len(entry.cells) > Len(hs)
                          THEN pushErr(acc.parseErrors,
                                       Truncated(line, Len(entry.cells), Len(hs)))
                          ELSE acc.parseErrors]

\* body[i] of the code is body[i + 1] here; headerIndex counts from 0 as in the code
RECURSIVE BodyLoop(_, _, _, _, _)
BodyLoop(body, i, headerIndex, hs, acc) ==
    IF i >= Len(body) THEN acc
    ELSE BodyLoop(body, i + 1, headerIndex, hs,
                  BodyStep(acc, body[i + 1], headerIndex + 2 + i, hs))

EmptyResult(errors) ==
    [headers |-> <<>>, rows |-> <<>>, previewRows |-> <<>>, totalRows |-> 0,
     parseErrors |-> errors]

Finish_noCumulative(hs, acc) ==
    [headers |-> hs, rows |-> acc.rows,
     previewRows |-> SubSeq(acc.rows, 1, Min(Len(acc.rows), MAX_PREVIEW_ROWS)),
     totalRows |-> Len(acc.rows),
     parseErrors |-> IF Len(acc.rows) = 0
                     THEN pushErr(acc.parseErrors, NoUsableDataRows)
                     ELSE acc.parseErrors]

\* lines 169-186
Finish(hs, acc) ==
    LET Skipped(errors) ==
            IF acc.skipped > 0 THEN pushErr(errors, SkippedMalformed(acc.skipped))
            ELSE errors
    IN  [headers |-> hs, rows |-> acc.rows,
         previewRows |-> SubSeq(acc.rows, 1, Min(Len(acc.rows), MAX_PREVIEW_ROWS)),
         totalRows |-> Len(acc.rows),
         parseErrors |-> Skipped(IF Len(acc.rows) = 0
                                 THEN pushErr(acc.parseErrors, NoUsableDataRows)
                                 ELSE acc.parseErrors)]

\* parseCsvFile(file) for a file with the text `text`, when Papa.parse reports
\* nErrors errors for it
parseCsvFile(text, nErrors) ==
    LET Table(data, errors, headerAt, hs) ==
            IF Len(hs) = 0 THEN EmptyResult(Append(errors, HeaderRowIsEmpty))
            ELSE Finish(hs, BodyLoop(SubSeq(data, headerAt + 1, Len(data)), 0,
                                     headerAt - 1, hs,
                                     [rows |-> <<>>, skipped |-> 0,
                                      parseErrors |-> errors]))
        Header(data, errors, headerAt) ==
            IF headerAt = 0 THEN EmptyResult(Append(errors, NoHeaderRowDetected))
            ELSE Table(data, errors, headerAt,
                       normalizeHeaders([c \in 1..Len(data[headerAt].cells) |->
                                            Trim(data[headerAt].cells[c])]))
        Parsed(data, errors) ==
            IF Len(data) = 0 THEN EmptyResult(Append(errors, NoRowsDetected))
            ELSE Header(data, errors, firstNonEmptyArrayRow(data))
        Text(cleaned) ==
            IF Len(cleaned) = 0 THEN EmptyResult(<<FileIsEmpty>>)
            ELSE Parsed(PapaData(cleaned), ParserMessages(nErrors))
    IN  Text(Cleaned(text))

ParseCsv ==
    /\ parseOut' = Some(parseCsvFile(csvText, papaErrors))
    /\ UNCHANGED <<csvText, papaErrors>>
    /\ UNCHANGED <<deriveVars, detectVars, uiVars>>

NextParse == ParseCsv

\* nothing has been derived and no header list is being scanned
InitNoDerive ==
    /\ rows = <<>> /\ latField = NoField /\ lonField = NoField
    /\ featureTypeField = NoField /\ timeline = DEFAULT_STATE
    /\ timelineFields = NoTimelineFields /\ rangeFields = NoRangeFields
    /\ pointsOut = None /\ regionsOut = None /\ groupsOut = None
    /\ visArgs = NoCall /\ visOut = None


-----------------------------------------------------------------------------
(* SpecParse: parseCsvFile on short files.  The lines are a blank line, a    *)
(* line skipEmptyLines drops, an entry that is not an array, two header      *)
(* rows (one of them repeating a name), a row of empty cells, and rows with  *)
(* fewer, as many and more cells than the headers.  Papa.parse reports no    *)
(* error, or as many as bring parseErrors to its limit.                      *)

MaxCsvLines == 3

BlankLine == Line("blank", <<>>)
DroppedLine == Line("empty", <<>>)
NonRow == Line("nonrow", <<>>)
Cells(cells) == Line("cells", cells)

NameA == <<"a">>
NameB == <<"b">>
NameA2 == <<"a", "_", "2">>

CsvLines ==
    {BlankLine, DroppedLine, NonRow,
     Cells(<<NameA, <<" ", "b">> >>),
     Cells(<<NameA, NameA2, NameA>>),
     Cells(<<Blank, <<" ">> >>),
     Cells(<<<<" ", "1">> >>),
     Cells(<<<<"1">>, <<"2", " ">> >>),
     Cells(<<<<"1">>, <<"2">>, <<"3">>, <<"4">> >>)}

PapaErrorCounts == {0, MAX_ERRORS - 1, MAX_ERRORS, MAX_ERRORS + 1}

InitParse ==
    /\ InitNoDerive
    /\ hook = None /\ slider = None
    /\ headers = <<>> /\ detectOut = None
    /\ csvText \in SeqsUpTo(CsvLines, MaxCsvLines)
    /\ papaErrors \in PapaErrorCounts
    /\ parseOut = None

SpecParse == InitParse /\ [][NextParse]_vars

\* the file's lines by their numbers: the header line (0 when there is none)
\* and the data lines after it that hold a row with a non-empty cell
IsRowLine(i) == csvText[i].kind = "cells" /\ SomeNonEmpty(csvText[i].cells)

HeaderLine ==
    IF \E i \in 1..Len(csvText) : IsRowLine(i)
    THEN CHOOSE i \in 1..Len(csvText) :
            IsRowLine(i) /\ \A j \in 1..(i - 1) : ~IsRowLine(j)
    ELSE 0

DataLines ==
    LET IsData(i) == HeaderLine > 0 /\ i > HeaderLine /\ IsRowLine(i)
    IN  SelectSeq([i \in 1..Len(csvText) |-> i], IsData)

Parsed == Val(parseOut)
ParsedTable == parseOut # None /\ Parsed.headers # <<>>
HeaderSet == {Parsed.headers[c] : c \in 1..Len(Parsed.headers)}
Occurrences(list, msg) == Cardinality({k \in 1..Len(list) : list[k] = msg})

\* C15: every returned row has exactly the returned headers as its keys; a
\* row with fewer cells than headers has the empty string under each header
\* past its last cell; a row with more cells than headers keeps none of the
\* extra cells and parseErrors holds one warning naming the row's line.
C15_RowsAndWarnings ==
    ParsedTable =>
        /\ Len(Parsed.rows) = Len(DataLines)
        /\ \A j \in 1..Len(Parsed.rows) :
              LET row == Parsed.rows[j]
                  line == DataLines[j]
                  cells == csvText[line].cells
                  kept == Len(Parsed.headers)
              IN  /\ DOMAIN row = HeaderSet
                  /\ \A c \in 1..kept : c > Len(cells) => row[Parsed.headers[c]] = <<>>
                  /\ Len(cells) > kept =>
                        /\ \A key \in HeaderSet :
                              \A c \in (kept + 1)..Len(cells) :
                                  row[key] = Trim(cells[c]) =>
                                      \E d \in 1..kept : Trim(cells[d]) = Trim(cells[c])
                        /\ Occurrences(Parsed.parseErrors,
                                       Truncated(line, Len(cells), kept)) = 1

\* the same with the warning left out: keys, filling and truncation
C15_RowShape ==
    ParsedTable =>
        /\ Len(Parsed.rows) = Len(DataLines)
        /\ \A j \in 1..Len(Parsed.rows) :
              LET row == Parsed.rows[j]
                  cells == csvText[DataLines[j]].cells
                  kept == Len(Parsed.headers)
              IN  /\ DOMAIN row = HeaderSet
                  /\ \A c \in 1..kept : c > Len(cells) => row[Parsed.headers[c]] = <<>>
                  /\ \A key \in HeaderSet :
                        \E c \in 1..kept : row[key] = normalizedValue(cells, c)

\* a file without blank lines, with room in parseErrors: the warning is there
C15_WarningWhenNoBlankLineAndRoom ==
    (/\ ParsedTable
     /\ \A i \in 1..Len(csvText) : csvText[i].kind \in {"cells", "nonrow"}
     /\ Len(Parsed.parseErrors) < MAX_ERRORS) =>
        \A j \in 1..Len(Parsed.rows) :
            LET line == DataLines[j]
                cells == csvText[line].cells
                kept == Len(Parsed.headers)
            IN  Len(cells) > kept =>
                    Occurrences(Parsed.parseErrors, Truncated(line, Len(cells), kept)) = 1

\* the header on line 2 after a blank line, a row of four cells on line 3,
\* no parser error: the warning names line 2
C15_WrongLine ==
    /\ parseOut # None
    /\ papaErrors = 0
    /\ csvText = <<BlankLine, Cells(<<NameA, <<" ", "b">> >>),
                   Cells(<<<<"1">>, <<"2">>, <<"3">>, <<"4">> >>)>>
    /\ Parsed.parseErrors = <<Truncated(2, 4, 2)>>

\* the limit reached by parser errors: a row of four cells adds no warning
C15_NoRoom ==
    /\ parseOut # None
    /\ papaErrors = MAX_ERRORS
    /\ csvText = <<Cells(<<NameA, <<" ", "b">> >>),
                   Cells(<<<<"1">>, <<"2">>, <<"3">>, <<"4">> >>)>>
    /\ Len(Parsed.rows) = 1
    /\ Occurrences(Parsed.parseErrors, Truncated(2, 4, 2)) = 0


\* the names of the header line, trimmed, the empty ones left out
RawNames ==
    LET cells == csvText[HeaderLine].cells
        NotEmpty(name) == name # <<>>
    IN  SelectSeq([c \in 1..Len(cells) |-> Trim(cells[c])], NotEmpty)

\* how many of the first k names are names[k]
OccurrenceNumber(names, k) == Cardinality({j \in 1..k : names[j] = names[k]})

\* the first occurrence of a name is the bare name, the n-th is name_n
NamingRule ==
    /\ Len(Parsed.headers) = Len(RawNames)
    /\ \A k \in 1..Len(RawNames) :
          LET n == OccurrenceNumber(RawNames, k)
          IN  Parsed.headers[k] = IF n = 1 THEN RawNames[k]
                                  ELSE RawNames[k] \o <<"_">> \o NumberToString(n)

PairwiseDistinct(list) ==
    \A i, j \in 1..Len(list) : i # j => list[i] # list[j]

\* C16: the returned headers are pairwise distinct for every header row, and
\* they are the trimmed non-empty names, a repeated name suffixed _2, _3, ...
\* in order of appearance.
C16_DistinctHeaders ==
    ParsedTable => NamingRule /\ PairwiseDistinct(Parsed.headers)

\* the suffix rule alone is what the code does
C16_NamingRule == ParsedTable => NamingRule

\* the header row a, a_2, a: the second a becomes a_2, which is there already
C16_RepeatedName ==
    /\ ParsedTable
    /\ csvText[HeaderLine].cells = <<NameA, NameA2, NameA>>
    /\ Parsed.headers = <<NameA, NameA2, NameA2>>


\* the lines after the header that are not blank (a line of white space, a
\* line Papa.parse drops and a row of empty cells are blank), and those of
\* them that hold no row
NonBlankDataLines ==
    {i \in 1..Len(csvText) :
        HeaderLine > 0 /\ i > HeaderLine /\ (csvText[i].kind = "nonrow" \/ IsRowLine(i))}

MalformedLines == {i \in NonBlankDataLines : csvText[i].kind = "nonrow"}

C17_BlankAndMalformed ==
    /\ ParsedTable
    /\ Len(csvText) = 3
    /\ csvText[2] \in {Cells(<<Blank, <<" ">> >>), NonRow}
    /\ csvText[3] \in {Cells(<<Blank, <<" ">> >>), NonRow}
    /\ Parsed.totalRows = 0


C18_AtMostOneMore ==
    parseOut # None =>
        /\ Len(Parsed.parseErrors) <= MAX_ERRORS + 1
        /\ ParsedTable => Len(Parsed.parseErrors) <= MAX_ERRORS

ExplanatoryWarning ==
    IF \A i \in 1..Len(csvText) : csvText[i].kind = "blank" THEN FileIsEmpty
    ELSE IF \A i \in 1..Len(csvText) : csvText[i].kind \in {"blank", "empty"}
    THEN NoRowsDetected
    ELSE NoHeaderRowDetected

EmptyTable ==
    /\ Parsed.headers = <<>> /\ Parsed.rows = <<>> /\ Parsed.previewRows = <<>>
    /\ Parsed.totalRows = 0
    /\ Len(Parsed.parseErrors) >= 1
    /\ Parsed.parseErrors[Len(Parsed.parseErrors)] = ExplanatoryWarning

CumulativeWarnings ==
    {k \in 1..Len(Parsed.parseErrors) :
        Parsed.parseErrors[k].type = SkippedMalformed(0).type}

C19_Dropped ==
    /\ ParsedTable
    /\ papaErrors = MAX_ERRORS
    /\ MalformedLines # {}
    /\ CumulativeWarnings = {}

\* the three inputs without a header row
C19_EmptyInputs ==
    /\ parseOut # None
    /\ HeaderLine = 0
    /\ csvText \in {<<BlankLine>>, <<BlankLine, DroppedLine>>,
                    <<NonRow, Cells(<<Blank, <<" ">> >>)>>}
    /\ EmptyTable


-----------------------------------------------------------------------------
(* geoColumns.js and timeline.js: detection of the header roles *)

LAT_SYNONYMS ==
    <<<<"l", "a", "t">>,
      <<"l", "a", "t", "i", "t", "u", "d", "e">>,
      <<"y">>,
      <<"n", "o", "r", "t", "h", "i", "n", "g">>>>
LON_SYNONYMS ==
    <<<<"l", "o", "n">>,
      <<"l", "n", "g">>,
      <<"l", "o", "n", "g">>,
      <<"l", "o", "n", "g", "i", "t", "u", "d", "e">>,
      <<"x">>,
      <<"e", "a", "s", "t", "i", "n", "g">>>>
YEAR_SYNONYMS ==
    <<<<"y", "e", "a", "r">>,
      <<"y", "y", "y", "y">>,
      <<"y", "r">>,
      <<"a", "r">>,
      <<"å", "r">>>>
DATE_SYNONYMS ==
    <<<<"d", "a", "t", "e">>,
      <<"d", "a", "t", "e", "t", "i", "m", "e">>,
      <<"t", "i", "m", "e", "s", "t", "a", "m", "p">>,
      <<"t", "i", "m", "e">>,
      <<"c", "r", "e", "a", "t", "e", "d">>,
      <<"c", "r", "e", "a", "t", "e", "d", "a", "t">>>>
DOY_SYNONYMS ==
    <<<<"d", "a", "y", "o", "f", "y", "e", "a", "r">>,
      <<"d", "o", "y">>,
      <<"y", "e", "a", "r", "d", "a", "y">>>>

\* the number of digits s ends with
RECURSIVE TrailingDigits(_)
TrailingDigits(s) ==
    IF s # <<>> /\ s[Len(s)] \in Digits
    THEN 1 + TrailingDigits(SubSeq(s, 1, Len(s) - 1))
    ELSE 0

\* .replace(/_\d+$/g, "")
DropNumberSuffix(s) ==
    LET Drop(k) == IF k >= 1 /\ Len(s) > k /\ s[Len(s) - k] = "_"
                   THEN SubSeq(s, 1, Len(s) - k - 1) ELSE s
    IN  Drop(TrailingDigits(s))

\* .replace(/[_-]+/g, "")
RemoveSeparators(s) == SelectSeq(s, LAMBDA c : c \notin {"_", "-"})

\* .replace(/\d+$/g, "")
DropTrailingDigits(s) == SubSeq(s, 1, Len(s) - TrailingDigits(s))

\* String.prototype.includes
Includes(text, s) ==
    \E i \in 0..(Len(text) - Len(s)) : SubSeq(text, i + 1, i + Len(s)) = s

\* geoColumns.js
normalizeKey(h) == DropNumberSuffix(RemoveSpaces(ToLowerCase(Trim(h))))

\* timeline.js
normalizeKey_timeline(h) ==
    DropTrailingDigits(RemoveSeparators(RemoveSpaces(ToLowerCase(Trim(h)))))

scoreHeader_containsFirst(normalized, synonyms) ==
    IF \E k \in 1..Len(synonyms) : Includes(normalized, synonyms[k]) THEN 50
    ELSE 0

\* geoColumns.js
scoreHeader(normalized, synonyms) ==
    IF \E k \in 1..Len(synonyms) : normalized = synonyms[k] THEN 100
    ELSE IF \E k \in 1..Len(synonyms) : Includes(normalized, synonyms[k]) THEN 50
    ELSE 0

\* timeline.js
scoreHeader_timeline(normalized, synonyms) ==
    IF \E k \in 1..Len(synonyms) : normalized = synonyms[k] THEN 100
    ELSE IF \E k \in 1..Len(synonyms) : Includes(normalized, synonyms[k]) THEN 50
    ELSE 0

PickStep_lastWins(best, h, i, s) ==
    IF s > 0 /\ s >= best.score THEN [field |-> Some(h), score |-> s, index |-> i] ELSE best

\* geoColumns.js line 46, h = headers[i] with score s
PickStep(best, h, i, s) ==
    IF s > best.score THEN [field |-> Some(h), score |-> s, index |-> i] ELSE best

\* i counts from 0 as in the code
RECURSIVE PickLoop(_, _, _, _)
PickLoop(hs, synonyms, i, best) ==
    IF i >= Len(hs) THEN best
    ELSE PickLoop(hs, synonyms, i + 1,
                  PickStep(best, hs[i + 1], i,
                           scoreHeader(normalizeKey(hs[i + 1]), synonyms)))

pickBest(hs, synonyms) ==
    PickLoop(hs, synonyms, 0, [field |-> None, score |-> 0, index |-> -1]).field

\* timeline.js line 29
PickStep_timeline(best, h, s) ==
    IF s > best.score THEN [field |-> Some(h), score |-> s] ELSE best

RECURSIVE PickLoop_timeline(_, _, _, _)
PickLoop_timeline(hs, synonyms, i, best) ==
    IF i > Len(hs) THEN best
    ELSE PickLoop_timeline(hs, synonyms, i + 1,
                           PickStep_timeline(best, hs[i],
                               scoreHeader_timeline(normalizeKey_timeline(hs[i]), synonyms)))

pickBest_timeline(hs, synonyms) ==
    PickLoop_timeline(hs, synonyms, 1, [field |-> None, score |-> 0]).field

autoDetectLatLon(hs) ==
    IF Len(hs) = 0 THEN [latField |-> None, lonField |-> None]
    ELSE [latField |-> pickBest(hs, LAT_SYNONYMS),
          lonField |-> pickBest(hs, LON_SYNONYMS)]

autoDetectTimelineFields(hs) ==
    IF Len(hs) = 0 THEN [yearField |-> None, dateField |-> None, dayOfYearField |-> None]
    ELSE [yearField |-> pickBest_timeline(hs, YEAR_SYNONYMS),
          dateField |-> pickBest_timeline(hs, DATE_SYNONYMS),
          dayOfYearField |-> pickBest_timeline(hs, DOY_SYNONYMS)]

DetectLatLon ==
    /\ detectOut' = [detectOut EXCEPT !.latLon = Some(autoDetectLatLon(headers))]
    /\ UNCHANGED headers
    /\ UNCHANGED <<deriveVars, csvVars, uiVars>>

DetectTimeline ==
    /\ detectOut' = [detectOut EXCEPT !.timeline = Some(autoDetectTimelineFields(headers))]
    /\ UNCHANGED headers
    /\ UNCHANGED <<deriveVars, csvVars, uiVars>>

NextDetect == DetectLatLon \/ DetectTimeline

-----------------------------------------------------------------------------
(* SpecDetect: detection on short header lists.  The names score 100, 50    *)
(* and 0 for the five roles, some for more than one role, and two of them    *)
(* are equal only after normalizeKey.                                        *)

MaxHeaders == 3

HeaderNames ==
    {<<"l", "a", "t">>,
     <<" ", "L", "a", "t", "i", "t", "u", "d", "e", "_", "2">>,
     <<"g", "p", "s", " ", "l", "a", "t">>,
     <<"L", "O", "N">>,
     <<"y", "e", "a", "r">>,
     <<"y", "r", "-", "2">>,
     <<"T", "i", "m", "e", "s", "t", "a", "m", "p", " ", "x">>,
     <<"d", "a", "t", "e">>,
     <<"d", "o", "y", "_", "1">>,
     <<"y", "e", "a", "r", "_", "d", "o", "y">>,
     <<"p", "o", "p">>}

InitDetect ==
    /\ InitNoDerive
    /\ hook = None /\ slider = None
    /\ csvText = <<>> /\ papaErrors = 0 /\ parseOut = None
    /\ headers \in SeqsUpTo(HeaderNames, MaxHeaders)
    /\ detectOut = [latLon |-> None, timeline |-> None]

SpecDetect == InitDetect /\ [][NextDetect]_vars


\* the five roles: what was returned for the role, its synonyms, and the
\* normalized name of each header
Roles == {"latField", "lonField", "yearField", "dateField", "dayOfYearField"}
IsGeoRole(role) == role \in {"latField", "lonField"}
Detected(role) == IF IsGeoRole(role) THEN detectOut.latLon ELSE detectOut.timeline

SynonymsOf(role) ==
    CASE role = "latField" -> LAT_SYNONYMS
      [] role = "lonField" -> LON_SYNONYMS
      [] role = "yearField" -> YEAR_SYNONYMS
      [] role = "dateField" -> DATE_SYNONYMS
      [] role = "dayOfYearField" -> DOY_SYNONYMS

NormalizedName(role, h) ==
    IF IsGeoRole(role) THEN normalizeKey(h) ELSE normalizeKey_timeline(h)

\* the score of the claim: equal to a synonym 100, only containing one 50,
\* no match 0
IsSynonym(role, name) == \E k \in 1..Len(SynonymsOf(role)) : name = SynonymsOf(role)[k]
ContainsSynonym(role, name) ==
    \E k \in 1..Len(SynonymsOf(role)) :
        \E i, j \in 1..Len(name) : SubSeq(name, i, j) = SynonymsOf(role)[k]

ScoreOf(role, h) ==
    LET name == NormalizedName(role, h)
    IN  IF IsSynonym(role, name) THEN 100
        ELSE IF ContainsSynonym(role, name) THEN 50
        ELSE 0

BestScore(role) ==
    IF headers = <<>> THEN 0
    ELSE LET scores == {ScoreOf(role, headers[i]) : i \in 1..Len(headers)}
         IN  CHOOSE s \in scores : \A t \in scores : t <= s

\* C20: for each role detection returns the first header, in header order,
\* among those with the highest score when that score is positive, and null
\* when no header scores above zero; a name equal to a synonym scores above
\* one that only contains a synonym, and no match scores zero.
C20_BestHeaderPerRole ==
    \A role \in Roles :
        Detected(role) # None =>
            LET field == Val(Detected(role))[role]
                best == BestScore(role)
            IN  IF best = 0 THEN field = None
                ELSE \E i \in 1..Len(headers) :
                        /\ field = Some(headers[i])
                        /\ ScoreOf(role, headers[i]) = best
                        /\ \A j \in 1..(i - 1) : ScoreOf(role, headers[j]) < best

\* a name that contains a latitude synonym, then two that are one: the
\* first of the two is the latitude, and there is no longitude
C20_Witness ==
    /\ detectOut.latLon # None /\ detectOut.timeline # None
    /\ headers = <<<<"g", "p", "s", " ", "l", "a", "t">>, <<" ", "L", "a", "t", "i", "t", "u", "d", "e", "_", "2">>, <<"l", "a", "t">>>>
    /\ Val(detectOut.latLon) = [latField |-> Some(<<" ", "L", "a", "t", "i", "t", "u", "d", "e", "_", "2">>), lonField |-> None]
    /\ Val(detectOut.timeline).yearField = None

\* a header may win two roles: year_doy is the year and the day of year,
\* and before gps lat it is the latitude as well
C20_SameHeaderTwice ==
    /\ detectOut.latLon # None /\ detectOut.timeline # None
    /\ headers = <<<<"y", "e", "a", "r", "_", "d", "o", "y">>, <<"g", "p", "s", " ", "l", "a", "t">>>>
    /\ Val(detectOut.latLon).latField = Some(<<"y", "e", "a", "r", "_", "d", "o", "y">>)
    /\ Val(detectOut.timeline).yearField = Some(<<"y", "e", "a", "r", "_", "d", "o", "y">>)
    /\ Val(detectOut.timeline).dayOfYearField = Some(<<"y", "e", "a", "r", "_", "d", "o", "y">>)


-----------------------------------------------------------------------------
(* SpecLatLon: autoDetectLatLon on header lists with names that hold a       *)
(* latitude synonym and a longitude synonym at once.                         *)

MaxLatLonHeaders == 3

LatLonNames ==
    {<<"l", "a", "t">>,
     <<"L", "O", "N">>,
     <<"l", "a", "t", "l", "o", "n", "g">>,
     <<"x", " ", "y">>,
     <<"l", "o", "n", "g">>,
     <<"p", "o", "p">>}

InitLatLon ==
    /\ InitNoDerive
    /\ hook = None /\ slider = None
    /\ csvText = <<>> /\ papaErrors = 0 /\ parseOut = None
    /\ headers \in SeqsUpTo(LatLonNames, MaxLatLonHeaders)
    /\ detectOut = [latLon |-> None, timeline |-> None]

NextLatLon == DetectLatLon

SpecLatLon == InitLatLon /\ [][NextLatLon]_vars

\* C21: when latField and lonField are both non-null they are different
\* headers.
C21_DifferentHeaders ==
    detectOut.latLon # None =>
        LET found == Val(detectOut.latLon)
        IN  (found.latField # None /\ found.lonField # None) =>
                found.latField # found.lonField

\* one header is both only when its name is no synonym of one of the roles
\* and merely contains one
C21_SameOnlyByContainment ==
    detectOut.latLon # None =>
        LET found == Val(detectOut.latLon)
        IN  (found.latField # None /\ found.latField = found.lonField) =>
                \/ ScoreOf("latField", Val(found.latField)) = 50
                \/ ScoreOf("lonField", Val(found.lonField)) = 50

\* the only header is latlong: it contains lat and it contains long
C21_OneHeaderBothRoles ==
    /\ detectOut.latLon # None
    /\ headers = <<<<"l", "a", "t", "l", "o", "n", "g">>>>
    /\ Val(detectOut.latLon) = [latField |-> Some(<<"l", "a", "t", "l", "o", "n", "g">>),
                                lonField |-> Some(<<"l", "a", "t", "l", "o", "n", "g">>)]


-----------------------------------------------------------------------------
(* timeline.js: the interval roles and the feature-type role *)

\* lines 68-73; normalizeKey is the one of lines 1-8
RECURSIVE findExactKey_from(_, _, _)
findExactKey_from(hs, normalizedKey, i) ==
    IF i > Len(hs) THEN None
    ELSE IF normalizeKey_timeline(hs[i]) = normalizedKey THEN Some(hs[i])
    ELSE findExactKey_from(hs, normalizedKey, i + 1)

findExactKey_contains(hs, normalizedKey) ==
    IF \E i \in 1..Len(hs) : Includes(normalizeKey_timeline(hs[i]), normalizedKey)
    THEN Some(hs[CHOOSE i \in 1..Len(hs) :
                    /\ Includes(normalizeKey_timeline(hs[i]), normalizedKey)
                    /\ \A j \in 1..(i - 1) :
                          ~Includes(normalizeKey_timeline(hs[j]), normalizedKey)])
    ELSE None

findExactKey(hs, normalizedKey) == findExactKey_from(hs, normalizedKey, 1)

autoDetectRangeFields(hs) ==
    IF Len(hs) = 0
    THEN [yearFromField |-> None, yearToField |-> None,
          dateFromField |-> None, dateToField |-> None]
    ELSE [yearFromField |-> findExactKey(hs, <<"y", "e", "a", "r", "f", "r", "o", "m">>),
          yearToField |-> findExactKey(hs, <<"y", "e", "a", "r", "t", "o">>),
          dateFromField |-> findExactKey(hs, <<"d", "a", "t", "e", "f", "r", "o", "m">>),
          dateToField |-> findExactKey(hs, <<"d", "a", "t", "e", "t", "o">>)]

\* lines 202-208: the normalizeKey detectFeatureTypeField calls
normalizeKey_featureType(h) == RemoveSeparators(RemoveSpaces(ToLowerCase(Trim(h))))

RECURSIVE detectFeatureTypeField_from(_, _)
detectFeatureTypeField_from(hs, i) ==
    IF i > Len(hs) THEN None
    ELSE IF normalizeKey_featureType(hs[i]) = <<"f", "e", "a", "t", "u", "r", "e", "t", "y", "p", "e">>
    THEN Some(hs[i])
    ELSE detectFeatureTypeField_from(hs, i + 1)

detectFeatureTypeField(hs) == detectFeatureTypeField_from(hs, 1)

DetectRange ==
    /\ detectOut' = [detectOut EXCEPT !.range = Some(autoDetectRangeFields(headers))]
    /\ UNCHANGED headers
    /\ UNCHANGED <<deriveVars, csvVars, uiVars>>

DetectFeatureType ==
    /\ detectOut' = [detectOut EXCEPT !.featureType = Some(detectFeatureTypeField(headers))]
    /\ UNCHANGED headers
    /\ UNCHANGED <<deriveVars, csvVars, uiVars>>

NextRoles == DetectTimeline \/ DetectRange \/ DetectFeatureType

-----------------------------------------------------------------------------
(* SpecRoles: the three detections App runs on the selected file's headers.  *)
(* The names are the interval and feature-type names in several spellings,   *)
(* point-in-time names, and a name that is none of them.                     *)

MaxRoleHeaders == 3

RoleNames ==
    {<<"y", "e", "a", "r">>,
     <<"y", "e", "a", "r", "F", "r", "o", "m">>,
     <<"Y", "e", "a", "r", "-", "T", "o", "_", "2">>,
     <<"d", "a", "t", "e", "_", "f", "r", "o", "m">>,
     <<"d", "a", "t", "e", "t", "o">>,
     <<"F", "e", "a", "t", "u", "r", "e", " ", "T", "y", "p", "e">>,
     <<"f", "e", "a", "t", "u", "r", "e", "T", "y", "p", "e", "2">>,
     <<"d", "o", "y">>,
     <<"p", "o", "p">>}

InitRoles ==
    /\ InitNoDerive
    /\ hook = None /\ slider = None
    /\ csvText = <<>> /\ papaErrors = 0 /\ parseOut = None
    /\ headers \in SeqsUpTo(RoleNames, MaxRoleHeaders)
    /\ detectOut = [latLon |-> None, timeline |-> None, range |-> None,
                    featureType |-> None]

SpecRoles == InitRoles /\ [][NextRoles]_vars

IntervalRoles == {"yearFromField", "yearToField", "dateFromField", "dateToField"}
PointInTimeRoles == {"yearField", "dateField", "dayOfYearField"}

RoleName(role) ==
    CASE role = "yearFromField" -> <<"y", "e", "a", "r", "f", "r", "o", "m">>
      [] role = "yearToField" -> <<"y", "e", "a", "r", "t", "o">>
      [] role = "dateFromField" -> <<"d", "a", "t", "e", "f", "r", "o", "m">>
      [] role = "dateToField" -> <<"d", "a", "t", "e", "t", "o">>

\* an interval role is null or the first header whose normalized name is the
\* role name; the feature-type role likewise
ExactNamesOnly ==
    /\ detectOut.range # None =>
          \A role \in IntervalRoles :
              LET field == Val(detectOut.range)[role]
                  Named(i) == normalizeKey_timeline(headers[i]) = RoleName(role)
              IN  IF \E i \in 1..Len(headers) : Named(i)
                  THEN \E i \in 1..Len(headers) :
                          /\ Named(i) /\ field = Some(headers[i])
                          /\ \A j \in 1..(i - 1) : ~Named(j)
                  ELSE field = None
    /\ detectOut.featureType # None =>
          LET field == Val(detectOut.featureType)
              Named(i) == normalizeKey_featureType(headers[i]) = <<"f", "e", "a", "t", "u", "r", "e", "t", "y", "p", "e">>
          IN  IF \E i \in 1..Len(headers) : Named(i)
              THEN \E i \in 1..Len(headers) :
                      /\ Named(i) /\ field = Some(headers[i])
                      /\ \A j \in 1..(i - 1) : ~Named(j)
              ELSE field = None

NoCollision ==
    (detectOut.range # None /\ detectOut.timeline # None) =>
        \A interval \in IntervalRoles, point \in PointInTimeRoles :
            Val(detectOut.range)[interval] # None =>
                Val(detectOut.range)[interval] # Val(detectOut.timeline)[point]

\* C22: the interval roles and the feature-type role go only to a header
\* whose normalized name is the role name, and a header detected as an
\* interval field is never also yearField, dateField or dayOfYearField.
C22_ExactAndNoCollision == ExactNamesOnly /\ NoCollision

\* the exact-name half holds by itself
C22_ExactNamesOnly == ExactNamesOnly

\* the only header is yearFrom: it is the yearFrom field, and it contains
\* "year", so it is the year field too
C22_IntervalHeaderIsYearField ==
    /\ detectOut.range # None /\ detectOut.timeline # None
    /\ headers = <<<<"y", "e", "a", "r", "F", "r", "o", "m">>>>
    /\ Val(detectOut.range).yearFromField = Some(<<"y", "e", "a", "r", "F", "r", "o", "m">>)
    /\ Val(detectOut.timeline).yearField = Some(<<"y", "e", "a", "r", "F", "r", "o", "m">>)


-----------------------------------------------------------------------------
(* SpecDayOfYear: tryParseDayOfYear on one row.  The day-of-year cells are   *)
(* inside, at the ends of and outside 1..365, with a fraction, not a number  *)
(* and empty; the dates are the first and last days of a leap year and of a  *)
(* common year, a leap day, and text that is no date.                        *)

ParseDayOfYear ==
    /\ visOut' = Some([dayOfYear |-> tryParseDayOfYear(visArgs.row, visArgs.timelineFields)])
    /\ UNCHANGED <<rows, latField, lonField, featureTypeField, timeline, timelineFields,
                   rangeFields, pointsOut, regionsOut, groupsOut, visArgs>>
    /\ UNCHANGED <<csvVars, detectVars, uiVars>>

NextDayOfYear == ParseDayOfYear

DayOfYearCells ==
    {Blank, <<"1">>, <<"3", "6", "5">>, <<"3", "6", "6">>, <<"0">>, <<"1", "2", ".", "7">>, <<"x">>, <<" ", "2", "0", "0", " ">>}

DayDateCells ==
    {Blank, <<"2", "0", "2", "1", "-", "0", "1", "-", "0", "1">>, <<"2", "0", "2", "1", "-", "1", "2", "-", "3", "1">>, <<"2", "0", "2", "0", "-", "0", "2", "-", "2", "9">>, <<"2", "0", "2", "0", "-", "1", "2", "-", "3", "1">>, <<"b", "a", "d">>}

InitDayOfYear ==
    /\ rows = <<>> /\ latField = NoField /\ lonField = NoField
    /\ featureTypeField = NoField /\ timeline = DEFAULT_STATE
    /\ timelineFields = NoTimelineFields /\ rangeFields = NoRangeFields
    /\ pointsOut = None /\ regionsOut = None /\ groupsOut = None
    /\ visOut = None
    /\ InitIdle
    /\ \E doy \in DayOfYearCells, date \in DayDateCells,
          doyField \in {"doy", NoField}, dateField \in {"date", NoField} :
          visArgs = [NoCall EXCEPT
                        !.row = [doy |-> doy, date |-> date],
                        !.timelineFields = [yearField |-> NoField,
                                            dateField |-> dateField,
                                            dayOfYearField |-> doyField]]

SpecDayOfYear == InitDayOfYear /\ [][NextDayOfYear]_vars

\* the explicit value of the call's row: the integer of its day-of-year
\* column when the column is mapped and the integer is in 1..365
ExplicitDay ==
    LET n == parseIntSafe(visArgs.row.doy)
    IN  IF visArgs.timelineFields.dayOfYearField # NoField
           /\ n # None /\ Val(n) >= 1 /\ Val(n) <= 365
        THEN n ELSE None

\* the day count since 1 January of the date's year, when the date column is
\* mapped and parses and the count is in 1..365
DerivedDay ==
    LET d == parseDateValue(visArgs.row.date)
    IN  IF visArgs.timelineFields.dateField # NoField /\ d # None
           /\ UTCDayOfYear(Val(d)) <= 365
        THEN Some(UTCDayOfYear(Val(d))) ELSE None

\* C23: the day-of-year is the explicit column value when it is an integer
\* in 1..365, otherwise the day derived from the parsed date, and absent
\* when that is outside 1..365 as well.
C23_ExplicitElseDerived ==
    visOut # None =>
        Val(visOut).dayOfYear = IF ExplicitDay # None THEN ExplicitDay ELSE DerivedDay

\* what the code does: the date is used only when no day-of-year column is mapped
C23_DerivedOnlyWithoutColumn ==
    visOut # None =>
        Val(visOut).dayOfYear =
            IF visArgs.timelineFields.dayOfYearField # NoField THEN ExplicitDay
            ELSE DerivedDay

\* both columns mapped, the day-of-year cell empty, the date 1 January 2021:
\* no day-of-year
C23_NoFallBackToDate ==
    /\ visOut # None
    /\ visArgs.timelineFields.dayOfYearField = "doy"
    /\ visArgs.timelineFields.dateField = "date"
    /\ visArgs.row = [doy |-> Blank, date |-> <<"2", "0", "2", "1", "-", "0", "1", "-", "0", "1">>]
    /\ Val(visOut).dayOfYear = None

\* 31 December of a leap year is day 366: absent, not 365
C23_LeapDayAbsent ==
    /\ visOut # None
    /\ visArgs.timelineFields.dayOfYearField = NoField
    /\ visArgs.timelineFields.dateField = "date"
    /\ visArgs.row.date = <<"2", "0", "2", "0", "-", "1", "2", "-", "3", "1">>
    /\ Val(visOut).dayOfYear = None


-----------------------------------------------------------------------------
(* SpecRerun: both derivations, any number of times, on files that mix point *)
(* rows (one with a latitude out of range) and region rows, enough of them   *)
(* for a polygon.                                                            *)

MaxRerunRows == 4

RerunRows ==
    {[PolygonRow(Blank, PlaceP, Blank) EXCEPT !.featureType = PointWord],
     [PolygonRow(Blank, NoPlace, Blank) EXCEPT !.featureType = PointWord],
     PolygonRow(Blank, PlaceP, Blank),
     PolygonRow(Blank, PlaceQ, Blank)}

InitRerun ==
    /\ InitDerive
    /\ rows \in SeqsUpTo(RerunRows, MaxRerunRows)
    /\ latField = "lat" /\ lonField = "lon" /\ featureTypeField = "featureType"
    /\ timeline = DEFAULT_STATE
    /\ timelineFields = NoTimelineFields /\ rangeFields = NoRangeFields

SpecRerun == InitRerun /\ [][NextDerive]_vars

DerivationInputs ==
    <<rows, latField, lonField, featureTypeField, timeline, timelineFields, rangeFields>>

\* the points are rows of the file, each with its index as id, in ascending order
PointsInRowOrder ==
    LET points == Val(pointsOut).points
        IndexOf(k) == CHOOSE i \in 0..(Len(rows) - 1) : IndexToString(i) = points[k].id
    IN  /\ \A k \in 1..Len(points) :
              /\ \E i \in 0..(Len(rows) - 1) : IndexToString(i) = points[k].id
              /\ points[k].row = rows[IndexOf(k) + 1]
        /\ \A k \in 1..(Len(points) - 1) : IndexOf(k) < IndexOf(k + 1)

C24_PolygonAndPoint ==
    /\ pointsOut # None /\ regionsOut # None
    /\ Len(Val(regionsOut).polygons) = 1
    /\ Len(Val(pointsOut).points) = 1
    /\ Val(pointsOut).points[1].id = <<"3">>


-----------------------------------------------------------------------------
(* timeline.js lines 380-595: the hook useCsvFiles *)
(* hook is a record: files (the list, newest first: [id, latField]),         *)
(* selectedId (0 for null), effectDue (a dependency of the effect changed    *)
(* since it last ran), calls (the importFiles calls that are awaiting        *)
(* parseCsvFile, each with the length of its toAdd), nextId (ids stand for   *)
(* crypto.randomUUID() values: every one is new), ops (operations begun) and *)
(* lastOp (the operation of the last step).  The loop of importFiles works   *)
(* on locals only, so a call is two steps: its start, where remainingSlots   *)
(* is computed from the files of the render it was called in, and its end,   *)
(* the two state updates of lines 491-496.                                   *)

MAX_FILES == 100
MaxOps == 4

NullId == 0
FileItem(id) == [id |-> id, latField |-> NoField]
FileIds(files) == {files[k].id : k \in 1..Len(files)}

\* the effect of lines 406-417: the selectedId it leaves
useEffectBody_keepSelection(files, selectedId) ==
    IF Len(files) = 0 THEN NullId ELSE selectedId

useEffectBody(files, selectedId) ==
    IF Len(files) = 0 THEN NullId
    ELSE IF ~(\E k \in 1..Len(files) : files[k].id = selectedId) THEN files[1].id
    ELSE selectedId

\* lines 435-441: toAdd.length for a fileList of n files
ToAddLength(files, n) == Min(n, Max(0, MAX_FILES - Len(files)))

\* lines 443-487: the items of a call, with new ids from nextId on
NewItems(nextId, count) == [k \in 1..count |-> FileItem(nextId + k - 1)]

RemoveAt(seq, k) == SubSeq(seq, 1, k - 1) \o SubSeq(seq, k + 1, Len(seq))

StartImportFiles(n) ==
    /\ hook.ops < MaxOps
    /\ hook' = [hook EXCEPT !.calls = Append(@, [toAdd |-> ToAddLength(hook.files, n)]),
                            !.ops = @ + 1,
                            !.lastOp = "importFiles"]

FinishImportFiles(k) ==
    /\ k \in 1..Len(hook.calls)
    /\ hook' = [hook EXCEPT
                   !.files = NewItems(hook.nextId, hook.calls[k].toAdd) \o @,
                   !.selectedId = IF hook.calls[k].toAdd > 0 THEN hook.nextId ELSE @,
                   !.effectDue = TRUE,
                   !.calls = RemoveAt(@, k),
                   !.nextId = @ + hook.calls[k].toAdd,
                   !.lastOp = "importFiles done"]

\* importExampleFile when the name is allowed and the fetch succeeds
ImportExampleFile ==
    /\ hook.ops < MaxOps
    /\ hook' = [hook EXCEPT
                   !.files = <<FileItem(hook.nextId)>> \o @,
                   !.selectedId = hook.nextId,
                   !.effectDue = TRUE,
                   !.nextId = @ + 1,
                   !.ops = @ + 1,
                   !.lastOp = "importExampleFile"]

UnloadSelected ==
    /\ hook.ops < MaxOps
    /\ hook' = IF hook.selectedId = NullId
               THEN [hook EXCEPT !.ops = @ + 1, !.lastOp = "unloadSelected"]
               ELSE [hook EXCEPT
                        !.files = SelectSeq(@, LAMBDA f : f.id # hook.selectedId),
                        !.effectDue = TRUE,
                        !.ops = @ + 1,
                        !.lastOp = "unloadSelected"]

UpdateFileMapping(fileId) ==
    /\ hook.ops < MaxOps
    /\ hook' = IF fileId = NullId
               THEN [hook EXCEPT !.ops = @ + 1, !.lastOp = "updateFileMapping"]
               ELSE [hook EXCEPT
                        !.files = [k \in 1..Len(@) |->
                                      IF @[k].id # fileId THEN @[k]
                                      ELSE [@[k] EXCEPT !.latField = "lat"]],
                        !.effectDue = TRUE,
                        !.ops = @ + 1,
                        !.lastOp = "updateFileMapping"]

SetSelectedId(id) ==
    /\ hook.ops < MaxOps
    /\ hook' = [hook EXCEPT
                   !.selectedId = id,
                   !.effectDue = @ \/ id # hook.selectedId,
                   !.ops = @ + 1,
                   !.lastOp = "setSelectedId"]

RunEffect ==
    /\ hook.effectDue
    /\ hook' = [hook EXCEPT
                   !.selectedId = useEffectBody(hook.files, hook.selectedId),
                   !.effectDue = useEffectBody(hook.files, hook.selectedId) # hook.selectedId,
                   !.lastOp = "effect"]

\* the ids the interface can pass: null, the newest and the oldest file, and
\* an id no file has
KnownIds ==
    {NullId, -1} \cup (IF hook.files = <<>> THEN {}
                       ELSE {hook.files[1].id, hook.files[Len(hook.files)].id})

FileListLengths == {0, 1, MAX_FILES}

NextHook ==
    \/ /\ \/ \E n \in FileListLengths : StartImportFiles(n)
          \/ \E k \in 1..Len(hook.calls) : FinishImportFiles(k)
          \/ ImportExampleFile
          \/ UnloadSelected
          \/ \E id \in KnownIds : UpdateFileMapping(id)
          \/ \E id \in KnownIds : SetSelectedId(id)
          \/ RunEffect
       /\ UNCHANGED <<deriveVars, csvVars, detectVars, slider>>

InitHook ==
    /\ InitNoDerive
    /\ csvText = <<>> /\ papaErrors = 0 /\ parseOut = None
    /\ headers = <<>> /\ detectOut = None
    /\ slider = None
    /\ hook = [files |-> <<>>, selectedId |-> NullId, effectDue |-> TRUE,
               calls |-> <<>>, nextId |-> 1, ops |-> 0, lastOp |-> "mount"]

SpecHook == InitHook /\ [][NextHook]_vars

\* C25: the session never holds more than MAX_FILES (100) files.
C25_AtMostMaxFiles == Len(hook.files) <= MAX_FILES

\* two importFiles calls of 100 files each, begun while no file was loaded
C25_TwoHundredFiles ==
    /\ Len(hook.files) = 2 * MAX_FILES
    /\ hook.ops = 2
    /\ hook.calls = <<>>

\* 100 files imported and then an example file
C25_ExampleAfterFull ==
    /\ Len(hook.files) = MAX_FILES + 1
    /\ hook.lastOp = "importExampleFile"

\* what a call by itself keeps to: it adds no more than the room it saw
C25_OneCallWithinRoom ==
    \A k \in 1..Len(hook.calls) : hook.calls[k].toAdd <= MAX_FILES


\* the selection is valid: null when no file is loaded, else a loaded file's id
ValidSelection(h) ==
    IF h.files = <<>> THEN h.selectedId = NullId
    ELSE h.selectedId \in FileIds(h.files)

\* C26: whenever the effect has run since the last change, selectedId is
\* null exactly when no file is loaded and otherwise the id of a loaded file;
\* unloading the selected file removes that file and no other, and the
\* effect then selects the first file of the list when files remain; a
\* finished import of at least one file selects the first of the new files.
C26_SelectionSettles ==
    [][/\ ~hook'.effectDue => ValidSelection(hook')
       /\ (hook'.lastOp = "unloadSelected" /\ hook.selectedId \in FileIds(hook.files)) =>
             /\ Len(hook'.files) = Len(hook.files) - 1
             /\ hook'.files = SelectSeq(hook.files, LAMBDA f : f.id # hook.selectedId)
             /\ hook'.selectedId = hook.selectedId
       /\ (hook'.lastOp = "effect" /\ hook.files # <<>>
           /\ hook.selectedId \notin FileIds(hook.files)) =>
             hook'.selectedId = hook.files[1].id
       /\ (hook'.lastOp = "importFiles done" /\ Len(hook'.files) > Len(hook.files)) =>
             /\ hook'.selectedId = hook'.files[1].id
             /\ hook'.selectedId \notin FileIds(hook.files)]_vars

\* two files were imported one after the other, the selected (newest) one
\* was unloaded, and the effect has selected the file that is left
C26_Witness ==
    /\ hook.lastOp = "effect" /\ ~hook.effectDue
    /\ hook.nextId = 3
    /\ Len(hook.files) = 1
    /\ hook.files[1].id = 1
    /\ hook.selectedId = 1

\* before the effect runs the selection may name a file that is gone
C26_StaleBeforeEffect ==
    /\ hook.lastOp = "unloadSelected" /\ hook.effectDue
    /\ hook.files # <<>>
    /\ hook.selectedId \notin FileIds(hook.files)

-----------------------------------------------------------------------------
(* DualRangeSlider.jsx: a controlled two-handle slider.  Its numbers are
   JavaScript numbers: a quotient of integers, NaN or an infinity. *)

Rat(n, d) == [kind |-> "num", n |-> n, d |-> d]
Whole(n) == Rat(n, 1)
NotANumber == [kind |-> "nan", n |-> 0, d |-> 1]
PlusInfinity == [kind |-> "pinf", n |-> 0, d |-> 1]
MinusInfinity == [kind |-> "ninf", n |-> 0, d |-> 1]

\* a / b for an integer a and a width b >= 0
Divide(a, b) ==
    IF b = 0 THEN (IF a = 0 THEN NotANumber
                   ELSE IF a > 0 THEN PlusInfinity ELSE MinusInfinity)
    ELSE Rat(a, b)

\* x * k for an integer k
Times(x, k) ==
    CASE x.kind = "nan" -> NotANumber
      [] x.kind = "num" -> Rat(x.n * k, x.d)
      [] OTHER -> IF k = 0 THEN NotANumber
                  ELSE IF (k > 0) = (x.kind = "pinf") THEN PlusInfinity
                  ELSE MinusInfinity

Negate(x) ==
    CASE x.kind = "num" -> Rat(0 - x.n, x.d)
      [] x.kind = "pinf" -> MinusInfinity
      [] x.kind = "ninf" -> PlusInfinity
      [] OTHER -> NotANumber

Plus(x, y) ==
    CASE x.kind = "nan" \/ y.kind = "nan" -> NotANumber
      [] x.kind = "num" /\ y.kind = "num" -> Rat(x.n * y.d + y.n * x.d, x.d * y.d)
      [] x.kind = "num" -> y
      [] y.kind = "num" -> x
      [] OTHER -> IF x.kind = y.kind THEN x ELSE NotANumber

Minus(x, y) == Plus(x, Negate(y))

\* x < y, false when either side is NaN
LessThan(x, y) ==
    CASE x.kind = "nan" \/ y.kind = "nan" -> FALSE
      [] x.kind = "num" /\ y.kind = "num" -> x.n * y.d < y.n * x.d
      [] x.kind = "ninf" -> y.kind # "ninf"
      [] y.kind = "pinf" -> x.kind # "pinf"
      [] OTHER -> FALSE

\* Math.min and Math.max: NaN when either argument is NaN
MathMin(x, y) ==
    IF x.kind = "nan" \/ y.kind = "nan" THEN NotANumber
    ELSE IF LessThan(y, x) THEN y ELSE x

MathMax(x, y) ==
    IF x.kind = "nan" \/ y.kind = "nan" THEN NotANumber
    ELSE IF LessThan(x, y) THEN y ELSE x

clamp(n, min, max) == MathMax(min, MathMin(max, n))

\* Number.parseInt(v, 10) of a prop that holds an integer or NaN
toInt(v) == IF v.kind = "num" /\ v.d = 1 THEN v ELSE NotANumber

\* Math.round(v / s) * s for a step s > 0; Math.round rounds halves up
roundStep(v, step) ==
    IF v.kind # "num" THEN v
    ELSE Whole(((2 * v.n + v.d * step) \div (2 * v.d * step)) * step)

NoDomain == <<>>

domain(sl) ==
    IF toInt(Whole(sl.min)).kind # "num" \/ toInt(Whole(sl.max)).kind # "num" THEN NoDomain
    ELSE IF sl.min = sl.max THEN NoDomain
    ELSE <<[min |-> Whole(sl.min), max |-> Whole(sl.max)]>>

Ordered(a, b) == IF LessThan(b, a) THEN [start |-> b, end |-> a] ELSE [start |-> a, end |-> b]

safe(sl) ==
    IF domain(sl) = NoDomain THEN [start |-> Whole(0), end |-> Whole(0)]
    ELSE Ordered(clamp(roundStep(toInt(sl.start), sl.step), domain(sl)[1].min, domain(sl)[1].max),
                 clamp(roundStep(toInt(sl.end), sl.step), domain(sl)[1].min, domain(sl)[1].max))

\* the slider's left edge is at clientX = 0
RectLeft == 0

valueFromClientX(clientX, sl) ==
    clamp(roundStep(Plus(domain(sl)[1].min,
                         Times(Divide(Max(0, Min(sl.width, clientX - RectLeft)), sl.width),
                               sl.max - sl.min)),
                    sl.step),
          domain(sl)[1].min, domain(sl)[1].max)

\* what setNext hands to onChange: nothing, or one {start, end}
setNext(nextStart, nextEnd, sl) ==
    IF sl.disabled THEN None
    ELSE IF domain(sl) = NoDomain THEN None
    ELSE Some(Ordered(clamp(roundStep(nextStart, sl.step), domain(sl)[1].min, domain(sl)[1].max),
                      clamp(roundStep(nextEnd, sl.step), domain(sl)[1].min, domain(sl)[1].max)))

NoMode == ""
NoPointer == 0

\* the window of a range drag, kept inside the domain
RangeWindowHigh(ns, ne, width, dom) ==
    IF LessThan(dom.max, ne) THEN [ns |-> Minus(dom.max, width), ne |-> dom.max]
    ELSE [ns |-> ns, ne |-> ne]

RangeWindow(ns, width, dom) ==
    IF LessThan(ns, dom.min) THEN RangeWindowHigh(dom.min, Plus(dom.min, width), width, dom)
    ELSE RangeWindowHigh(ns, Plus(ns, width), width, dom)

RangeNext(win, sl) == setNext(win.ns, win.ne, sl)

\* the onChange call of one pointermove event, if it makes one
onPointerMove(pointerId, clientX, sl) ==
    IF sl.disabled THEN None
    ELSE IF domain(sl) = NoDomain THEN None
    ELSE IF sl.pointerId # pointerId THEN None
    ELSE IF sl.mode = NoMode THEN None
    ELSE IF sl.mode = "start" THEN setNext(valueFromClientX(clientX, sl), safe(sl).end, sl)
    ELSE IF sl.mode = "end" THEN setNext(safe(sl).start, valueFromClientX(clientX, sl), sl)
    ELSE RangeNext(RangeWindow(Plus(sl.startStart,
                                    Times(Divide(clientX - sl.startX, sl.width), sl.max - sl.min)),
                               Minus(sl.startEnd, sl.startStart),
                               domain(sl)[1]),
                   sl)

MaxSliderOps == 4

Touched(sl, op, pointerId, reported) ==
    [sl EXCEPT !.lastOp = op, !.lastPointer = pointerId, !.out = reported,
               !.ops = sl.ops + 1]

\* the panel renders the slider with new props
RenderDomain(min, max) ==
    /\ slider.ops < MaxSliderOps
    /\ slider' = Touched([slider EXCEPT !.min = min, !.max = max], "render", NoPointer, None)
    /\ UNCHANGED <<deriveVars, csvVars, detectVars, hook>>

RenderValues(start, end) ==
    /\ slider.ops < MaxSliderOps
    /\ slider' = Touched([slider EXCEPT !.start = Whole(start), !.end = Whole(end)],
                         "render", NoPointer, None)
    /\ UNCHANGED <<deriveVars, csvVars, detectVars, hook>>

RenderDisabled(disabled) ==
    /\ slider.ops < MaxSliderOps
    /\ slider' = Touched([slider EXCEPT !.disabled = disabled], "render", NoPointer, None)
    /\ UNCHANGED <<deriveVars, csvVars, detectVars, hook>>

\* the layout gives the slider element a new width
Resize(width) ==
    /\ slider.ops < MaxSliderOps
    /\ slider' = Touched([slider EXCEPT !.width = width], "resize", NoPointer, None)
    /\ UNCHANGED <<deriveVars, csvVars, detectVars, hook>>

PointerDown(mode, pointerId, clientX) ==
    /\ slider.ops < MaxSliderOps
    /\ slider' =
         IF slider.disabled \/ domain(slider) = NoDomain
         THEN Touched(slider, "pointerdown", pointerId, None)
         ELSE Touched([slider EXCEPT !.mode = mode, !.pointerId = pointerId,
                                     !.startStart = safe(slider).start,
                                     !.startEnd = safe(slider).end,
                                     !.startX = clientX],
                      "pointerdown", pointerId, None)
    /\ UNCHANGED <<deriveVars, csvVars, detectVars, hook>>

\* the panel's onChange stores what the slider reported as the next start and end
Reported(sl, pointerId, reported) ==
    IF reported = None THEN Touched(sl, "pointermove", pointerId, None)
    ELSE Touched([sl EXCEPT !.start = Val(reported).start, !.end = Val(reported).end],
                 "pointermove", pointerId, reported)

PointerMove(pointerId, clientX) ==
    /\ slider.ops < MaxSliderOps
    /\ slider' = Reported(slider, pointerId, onPointerMove(pointerId, clientX, slider))
    /\ UNCHANGED <<deriveVars, csvVars, detectVars, hook>>

PointerUp(pointerId) ==
    /\ slider.ops < MaxSliderOps
    /\ slider' =
         IF slider.pointerId # pointerId THEN Touched(slider, "pointerup", pointerId, None)
         ELSE Touched([slider EXCEPT !.mode = NoMode, !.pointerId = NoPointer],
                      "pointerup", pointerId, None)
    /\ UNCHANGED <<deriveVars, csvVars, detectVars, hook>>

SliderDomains == {<<0, 4>>, <<1, 3>>, <<2, 2>>}
SliderValues == {0, 2, 5}
SliderWidths == {0, 4}
SliderModes == {"start", "end", "range"}
Pointers == {1, 2}
ClientXs == {0, 1, 4}

NextSlider ==
    \/ \E d \in SliderDomains : RenderDomain(d[1], d[2])
    \/ \E s \in SliderValues, e \in SliderValues : RenderValues(s, e)
    \/ \E b \in BOOLEAN : RenderDisabled(b)
    \/ \E w \in SliderWidths : Resize(w)
    \/ \E m \in SliderModes, p \in Pointers, x \in ClientXs : PointerDown(m, p, x)
    \/ \E p \in Pointers, x \in ClientXs : PointerMove(p, x)
    \/ \E p \in Pointers : PointerUp(p)

InitSlider ==
    /\ InitNoDerive
    /\ csvText = <<>> /\ papaErrors = 0 /\ parseOut = None
    /\ headers = <<>> /\ detectOut = None
    /\ hook = None
    /\ slider = [min |-> 0, max |-> 4, step |-> 1, start |-> Whole(0), end |-> Whole(4),
                 disabled |-> FALSE, width |-> 4,
                 mode |-> NoMode, pointerId |-> NoPointer,
                 startStart |-> Whole(0), startEnd |-> Whole(0), startX |-> 0,
                 out |-> None, lastOp |-> "mount", lastPointer |-> NoPointer, ops |-> 0]

SpecSlider == InitSlider /\ [][NextSlider]_vars

InDomain(v, sl) ==
    /\ v.kind = "num"
    /\ ~LessThan(v, Whole(sl.min))
    /\ ~LessThan(Whole(sl.max), v)

\* C27: every onChange carries start <= end with both values inside [min, max],
\* and none is made while the slider is disabled, while min equals max, or for
\* a pointer that did not start the active drag.
C27_Sanitized ==
    slider.out # None =>
        /\ InDomain(Val(slider.out).start, slider)
        /\ InDomain(Val(slider.out).end, slider)
        /\ ~LessThan(Val(slider.out).end, Val(slider.out).start)
        /\ ~slider.disabled
        /\ slider.min # slider.max
        /\ slider.mode # NoMode
        /\ slider.lastPointer = slider.pointerId

\* C27, the part that holds: an onChange is made only by the pointer of the
\* active drag on an enabled slider with min # max, and the numbers it carries
\* are ordered and inside [min, max] whenever neither is NaN.
C27_GuardsAndFiniteValues ==
    slider.out # None =>
        /\ ~slider.disabled
        /\ slider.min # slider.max
        /\ slider.mode # NoMode
        /\ slider.lastPointer = slider.pointerId
        /\ (Val(slider.out).start.kind # "nan" /\ Val(slider.out).end.kind # "nan") =>
              /\ InDomain(Val(slider.out).start, slider)
              /\ InDomain(Val(slider.out).end, slider)
              /\ ~LessThan(Val(slider.out).end, Val(slider.out).start)

\* a handle drag on a slider whose element has width 0 reports NaN
C27_ReportsNaN ==
    /\ slider.out # None
    /\ slider.width = 0
    /\ slider.mode = "start"
    /\ Val(slider.out).start.kind = "nan"
    /\ Val(slider.out).end = Whole(4)

\* a range drag moves both ends and keeps the window inside the domain
C27_RangeDrag ==
    /\ slider.out # None
    /\ slider.mode = "range"
    /\ slider.width = 4
    /\ Val(slider.out) = [start |-> Whole(1), end |-> Whole(3)]
    /\ slider.min = 0 /\ slider.max = 4

-----------------------------------------------------------------------------
(* SpecApp: the two derivations as App.jsx calls them on the selected file.  *)
(* The points call passes no rangeFields, which the callee reads as          *)
(* rangeFields?.yearFromField = undefined: no interval field is mapped.      *)

AppDerivePoints ==
    /\ pointsOut' = Some(derivePointsFromCsv(rows, latField, lonField, timeline,
                                             timelineFields, NoRangeFields, featureTypeField))
    /\ UNCHANGED <<rows, latField, lonField, featureTypeField, timeline, timelineFields,
                   rangeFields, regionsOut, groupsOut, visArgs, visOut>>
    /\ UNCHANGED <<csvVars, detectVars, uiVars>>

AppDeriveRegions == DeriveRegions

NextApp == AppDerivePoints \/ AppDeriveRegions

MaxAppRows == 2

AppRows ==
    {WindowRow(ft, y, iv[1], iv[2]) :
        ft \in {PointWord, RegionWord},
        y \in {Blank, <<"1", "9", "6", "0">>, <<"2", "0", "0", "0">>},
        iv \in {<<Blank, Blank>>, <<<<"1", "9", "2", "0">>, <<"1", "9", "4", "0">>>>,
                <<<<"1", "9", "6", "5">>, Blank>>}}

AppTimelines ==
    {[DEFAULT_STATE EXCEPT !.timelineEnabled = en, !.startYear = sy, !.endYear = ey] :
        en \in BOOLEAN, sy \in {None, <<1950>>}, ey \in {None, <<1970>>}}

InitApp ==
    /\ InitDerive
    /\ rows \in SeqsUpTo(AppRows, MaxAppRows)
    /\ latField = "lat" /\ lonField = "lon" /\ featureTypeField = "featureType"
    /\ timeline \in AppTimelines
    /\ timelineFields = [AllTimelineFields EXCEPT !.dateField = NoField,
                                                  !.dayOfYearField = NoField]
    /\ rangeFields = [AllRangeFields EXCEPT !.dateFromField = NoField,
                                            !.dateToField = NoField]

SpecApp == InitApp /\ [][NextApp]_vars

SameTimeColumns(r, q) ==
    /\ Get(r, "year") = Get(q, "year")
    /\ Get(r, "yearFrom") = Get(q, "yearFrom")
    /\ Get(r, "yearTo") = Get(q, "yearTo")

HasIntervalCell(r) == Get(r, "yearFrom") # Blank \/ Get(r, "yearTo") # Blank

\* C28: under one timeline state a point row and a region row with the same
\* time columns get the same visibility, and a point row with yearFrom /
\* yearTo cells is shown exactly when its interval overlaps the window.
C28_SameVisibility ==
    (~IsNull(pointsOut) /\ ~IsNull(regionsOut)) =>
        /\ \A i \in 1..Len(rows), j \in 1..Len(rows) :
              (/\ Get(rows[i], "featureType") = PointWord
               /\ Get(rows[j], "featureType") = RegionWord
               /\ SameTimeColumns(rows[i], rows[j])) =>
                  (PointEmitted(i - 1) <=> (j - 1) \in VertexIndices)
        /\ \A i \in 1..Len(rows) :
              (Get(rows[i], "featureType") = PointWord /\ HasIntervalCell(rows[i])) =>
                  (PointEmitted(i - 1) <=> TimelineShows(rows[i]))

\* C28, the part that holds: rows without interval cells get the same
\* visibility as points and as regions, and region rows follow the interval.
C28_AgreeWithoutInterval ==
    (~IsNull(pointsOut) /\ ~IsNull(regionsOut)) =>
        /\ \A i \in 1..Len(rows), j \in 1..Len(rows) :
              (/\ Get(rows[i], "featureType") = PointWord
               /\ Get(rows[j], "featureType") = RegionWord
               /\ SameTimeColumns(rows[i], rows[j])
               /\ ~HasIntervalCell(rows[i])) =>
                  (PointEmitted(i - 1) <=> (j - 1) \in VertexIndices)
        /\ \A j \in 1..Len(rows) :
              Get(rows[j], "featureType") = RegionWord =>
                  ((j - 1) \in VertexIndices <=> TimelineShows(rows[j]))

\* a point row and a region row, both of 1960 with the interval 1920 to 1940,
\* under the window 1950 to 1970: the point is shown, the region row is hidden
C28_PointShownRegionHidden ==
    /\ ~IsNull(pointsOut) /\ ~IsNull(regionsOut)
    /\ timeline.timelineEnabled
    /\ timeline.startYear = <<1950>> /\ timeline.endYear = <<1970>>
    /\ Len(rows) = 2
    /\ rows[1] = WindowRow(PointWord, <<"1", "9", "6", "0">>,
                           <<"1", "9", "2", "0">>, <<"1", "9", "4", "0">>)
    /\ rows[2] = WindowRow(RegionWord, <<"1", "9", "6", "0">>,
                           <<"1", "9", "2", "0">>, <<"1", "9", "4", "0">>)
    /\ PointEmitted(0)
    /\ Val(pointsOut).skippedByTimeline = 0
    /\ VertexIndices = {}
    /\ Val(regionsOut).skippedByTimeline = 1

-----------------------------------------------------------------------------
(* SpecIds: region derivation over featureId and part values that hold the   *)
(* character ":", enough rows for two polygons.                              *)

MaxIdRows == 6

IdRow(featureId, part) ==
    [featureType |-> RegionWord, featureId |-> featureId, part |-> part,
     lat |-> <<"0">>, lon |-> <<"1">>]

IdRows ==
    {IdRow(<<"a">>, <<"b", ":", "c">>), IdRow(<<"a", ":", "b">>, <<"c">>),
     IdRow(<<"a">>, Blank), IdRow(<<"a">>, <<"0">>)}

InitIds ==
    /\ InitDerive
    /\ rows \in SeqsUpTo(IdRows, MaxIdRows)
    /\ latField = "lat" /\ lonField = "lon" /\ featureTypeField = "featureType"
    /\ timeline = DEFAULT_STATE
    /\ timelineFields = NoTimelineFields /\ rangeFields = NoRangeFields

SpecIds == InitIds /\ [][NextDerive]_vars

\* C29: the polygons returned by one region derivation have pairwise
\* distinct ids.
C29_DistinctIds ==
    ~IsNull(regionsOut) =>
        \A k \in 1..Len(Val(regionsOut).polygons), l \in 1..Len(Val(regionsOut).polygons) :
            k # l => Val(regionsOut).polygons[k].id # Val(regionsOut).polygons[l].id

\* C29, the part that holds: no two returned polygons have the same featureId
\* and the same part, a blank part being the part "0".
C29_DistinctGroups ==
    ~IsNull(regionsOut) =>
        \A k \in 1..Len(Val(regionsOut).polygons), l \in 1..Len(Val(regionsOut).polygons) :
            k # l => \/ Val(regionsOut).polygons[k].featureId
                           # Val(regionsOut).polygons[l].featureId
                     \/ Val(regionsOut).polygons[k].part # Val(regionsOut).polygons[l].part

\* featureId "a" with part "b:c" and featureId "a:b" with part "c" both give
\* the id "a:b:c"
C29_SameIdTwice ==
    /\ ~IsNull(regionsOut)
    /\ Len(Val(regionsOut).polygons) = 2
    /\ Val(regionsOut).polygons[1].featureId = <<"a">>
    /\ Val(regionsOut).polygons[1].part = <<"b", ":", "c">>
    /\ Val(regionsOut).polygons[2].featureId = <<"a", ":", "b">>
    /\ Val(regionsOut).polygons[2].part = <<"c">>
    /\ Val(regionsOut).polygons[1].id = <<"a", ":", "b", ":", "c">>
    /\ Val(regionsOut).polygons[2].id = <<"a", ":", "b", ":", "c">>

\* rows with a blank part and rows with the part "0" make one polygon
C29_BlankPartIsZero ==
    /\ ~IsNull(regionsOut)
    /\ Len(rows) = 3
    /\ rows[1].part = Blank /\ rows[2].part = <<"0">> /\ rows[3].part = Blank
    /\ Len(Val(regionsOut).polygons) = 1
    /\ Val(regionsOut).polygons[1].id = <<"a", ":", "0">>

-----------------------------------------------------------------------------
(* SpecAlign: parseCsvFile on files whose header row can hold empty names,   *)
(* before, between and after the named columns.                              *)

MaxAlignLines == 3

AlignLines ==
    {BlankLine,
     Cells(<<NameA, NameB>>),
     Cells(<<NameA, Blank, NameB>>),
     Cells(<<<<" ">>, NameA, NameB, Blank>>),
     Cells(<<<<"1">>, <<" ", "2">>, <<"3">> >>),
     Cells(<<<<"1">>, <<"2">> >>)}

InitAlign ==
    /\ InitNoDerive
    /\ hook = None /\ slider = None
    /\ headers = <<>> /\ detectOut = None
    /\ csvText \in SeqsUpTo(AlignLines, MaxAlignLines)
    /\ papaErrors \in {0, 1}
    /\ parseOut = None

SpecAlign == InitAlign /\ [][NextParse]_vars

\* the column positions of the header row that hold a non-empty name, in order:
\* the k-th returned header stands at the k-th of them
NamedColumns ==
    LET IsNamed(c) == Trim(csvText[HeaderLine].cells[c]) # <<>>
    IN  SelectSeq([c \in 1..Len(csvText[HeaderLine].cells) |-> c], IsNamed)

AlignedRows ==
    /\ Len(Parsed.rows) = Len(DataLines)
    /\ Len(Parsed.headers) = Len(NamedColumns)
    /\ \A j \in 1..Len(Parsed.rows) :
          \A k \in 1..Len(Parsed.headers) :
              Parsed.rows[j][Parsed.headers[k]]
                  = normalizedValue(csvText[DataLines[j]].cells, NamedColumns[k])

\* C30: for every data row and every returned header, the Row's value under
\* the header is the trimmed cell at the column position the header name had
\* in the header row, also when the header row holds empty names.
C30_Aligned == ParsedTable => AlignedRows

\* C30, the part that holds: the columns are aligned when no empty name
\* stands before a named column of the header row.
C30_AlignedWithoutGaps ==
    (ParsedTable /\ \A k \in 1..Len(NamedColumns) : NamedColumns[k] = k) => AlignedRows

\* header a,,b and row 1,2,3: b holds the cell of the unnamed column
C30_ShiftedColumn ==
    /\ parseOut # None
    /\ papaErrors = 0
    /\ csvText = <<Cells(<<NameA, Blank, NameB>>),
                   Cells(<<<<"1">>, <<" ", "2">>, <<"3">> >>)>>
    /\ Parsed.headers = <<NameA, NameB>>
    /\ Len(Parsed.rows) = 1
    /\ Parsed.rows[1][NameA] = <<"1">>
    /\ Parsed.rows[1][NameB] = <<"2">>
    /\ Parsed.parseErrors = <<Truncated(2, 3, 2)>>

\* header a,b and row 1,2,3: each header holds the cell of its own column
C30_PlainHeader ==
    /\ parseOut # None
    /\ csvText = <<Cells(<<NameA, NameB>>),
                   Cells(<<<<"1">>, <<" ", "2">>, <<"3">> >>)>>
    /\ Parsed.rows = <<Parsed.rows[1]>>
    /\ Parsed.rows[1][NameA] = <<"1">>
    /\ Parsed.rows[1][NameB] = <<"2">>

====
